---- MODULE Spec2Model ----
(***************************************************************************)
(* A model of cargo-buckal's cell resolver, label rewriter, dependency     *)
(* classifier, rule-graph translator, change applier, third-party alias    *)
(* generator and cell configuration parser.                                *)
(*                                                                         *)
(* Strings are TLA+ strings; the string and path functions of the Rust     *)
(* standard library that the code calls (find, starts_with, slicing,       *)
(* Path::components, Path::starts_with, Path::strip_prefix, Path::join)    *)
(* are defined below by what they compute.                                 *)
(***************************************************************************)
EXTENDS Integers, Sequences, FiniteSets, TLC

VARIABLES
    \* cell resolver runs (find_cell_for_path called twice on one input)
    cfg, path, found1, found2, cpc,
    \* label rewriter runs (rewrite_target_with_cell, then again on its output)
    target, file, out1, out2, lpc,
    \* one set_deps call: the unit kind, the run context, node.deps, the number
    \* of edges handled, the rule's deps and named_deps, and whether the call
    \* runs, returned or exited the process
    kind, ctx, node, nEdges, deps, named_deps, dpc,
    \* one buckify_root_node or buckify_dep_node call: the package, its node and
    \* the run context, the rules pushed so far, the position of the call (or
    \* how it ended) and the number of units handled in the loop it is in
    job, buck_rules, bpc, bi,
    \* one BuckalChange::apply call: the change set, the entries whose iteration
    \* has begun (in order), the directories and the files of the vendor tree
    \* and the first-party packages, the run flags, and the position of the call
    \* (or how it ended)
    changes, applied, dirs, files, actx, apc,
    \* the parser and file-system calls of the last patch-and-write part of apply
    calls,
    \* one flush_root call: ctx.nodes_map of the first-party packages, the run
    \* context, the crate names recorded so far with the packages recorded under
    \* them, the packages the loop has handled, the alias rules written, the
    \* references of the root's rule, and the position of the call
    anodes, fctx, grouped, seen, alias_rules, root_deps, root_named, fpc,
    \* one .buckconfig: the text of the file, the BuckConfig in memory, the one
    \* that was saved, the section calls made on it, and the position
    disk, bc, saved, kops, kpc

cellVars == <<path, found1, found2, cpc>>
labelVars == <<target, file, out1, out2, lpc>>
depVars == <<kind, ctx, node, nEdges, deps, named_deps, dpc>>
ruleVars == <<job, buck_rules, bpc, bi>>
applyVars == <<changes, applied, dirs, files, actx, apc, calls>>
aliasVars == <<anodes, fctx, grouped, seen, alias_rules, root_deps, root_named, fpc>>
configVars == <<disk, bc, saved, kops, kpc>>
vars == <<cfg, cellVars, labelVars, depVars, ruleVars, applyVars, aliasVars, configVars>>

(***************************************************************************)
(* Bounds                                                                  *)
(***************************************************************************)
\* the number of path segments of an enumerated label or path
MaxSegs == 2

(***************************************************************************)
(* str / Path primitives                                                   *)
(***************************************************************************)
\* s[from..] with a 0-based byte offset
StrFrom(s, from) == SubSeq(s, from + 1, Len(s))

\* s[..to] with a 0-based exclusive end
StrTo(s, to) == SubSeq(s, 1, to)

\* str::starts_with
StartsWith(s, p) == Len(p) <= Len(s) /\ SubSeq(s, 1, Len(p)) = p

\* str::ends_with
EndsWith(s, p) == Len(p) <= Len(s) /\ SubSeq(s, Len(s) - Len(p) + 1, Len(s)) = p

\* the least of a set of offsets, -1 for the empty set (None)
MinOffset(hits) == IF hits = {} THEN -1 ELSE CHOOSE i \in hits : \A j \in hits : i <= j

\* str::find: the 0-based offset of the first occurrence, -1 for None
Find(s, p) == MinOffset({i \in 0..(Len(s) - Len(p)) : SubSeq(s, i + 1, i + Len(p)) = p})

\* str::contains
Contains(s, p) == Find(s, p) >= 0

\* the pieces of s between occurrences of the one-character separator c, the
\* first of which is at offset i
RECURSIVE SplitOn(_, _)
SplitAt(s, c, i) ==
    IF i < 0 THEN <<s>> ELSE <<StrTo(s, i)>> \o SplitOn(StrFrom(s, i + 1), c)

SplitOn(s, c) == SplitAt(s, c, Find(s, c))

\* the pieces joined with "/"
RECURSIVE JoinSegs(_)
JoinSegs(segs) ==
    IF segs = <<>> THEN ""
    ELSE IF Len(segs) = 1 THEN segs[1]
    ELSE segs[1] \o "/" \o JoinSegs(Tail(segs))

\* Path::components of the pieces between the "/" of a path: "/" first for
\* an absolute path (RootDir), "." kept only as the first component of a
\* relative path (CurDir), empty pieces and other "." pieces dropped
ComponentsOf(pieces, abs) ==
    (IF abs THEN <<"/">> ELSE IF Head(pieces) = "" THEN <<>> ELSE <<Head(pieces)>>)
        \o SelectSeq(Tail(pieces), LAMBDA x : x # "" /\ x # ".")

\* Path::components
Components(p) == ComponentsOf(SplitOn(p, "/"), StartsWith(p, "/"))

\* Path::starts_with on component lists: whole components only
IsPrefixSeq(pre, s) == Len(pre) <= Len(s) /\ SubSeq(s, 1, Len(pre)) = pre

\* the components of get_buck2_root(), an absolute directory
Buck2Root == <<"/", "ws">>

\* Path::join on components: an absolute argument replaces the base; pieces
\* of a relative argument follow the base ("." is then no first component)
PathJoin(base, p) ==
    IF StartsWith(p, "/") THEN Components(p)
    ELSE base \o SelectSeq(Components(p), LAMBDA c : c # ".")

\* Path::strip_prefix: [ok |-> FALSE] for Err
StripPrefix(full, base) ==
    IF IsPrefixSeq(base, full)
    THEN [ok |-> TRUE, rel |-> SubSeq(full, Len(base) + 1, Len(full))]
    ELSE [ok |-> FALSE, rel |-> <<>>]

(***************************************************************************)
(* Cell configuration: the results of parse_cells and parse_cell_aliases   *)
(***************************************************************************)
EmptyMap == [x \in {} |-> ""]

\* the configuration of the specification's second end-to-end example
Example2Config ==
    [cells |-> ("root" :> "." @@ "third_party" :> "third-party"),
     aliases |-> ("tp" :> "third_party")]

\* a configuration with nested declarations
NestedConfig == [cells |-> ("root" :> "." @@ "sub" :> "a/b"), aliases |-> EmptyMap]

\* the .buckconfig contents the model ranges over
Configs ==
    { Example2Config,
      NestedConfig,
      [cells |-> ("root" :> "." @@ "a" :> "a" @@ "sub" :> "a/b"),
       aliases |-> ("tp" :> "nocell")],
      [cells |-> ("third_party" :> "third-party" @@ "sub" :> "a"),
       aliases |-> ("tp" :> "third_party" @@ "s" :> "sub")],
      [cells |-> EmptyMap, aliases |-> EmptyMap] }

\* Option<(String, usize)> / Option<String>
None == [some |-> FALSE, name |-> "", len |-> 0]
Some(n, l) == [some |-> TRUE, name |-> n, len |-> l]

\* bundles.rs find_cell_for_path, lines 159-170: cells plus the aliases whose
\* cell is declared, each mapped to the declared path
CellMappings(c) ==
    [n \in DOMAIN c.cells \cup {a \in DOMAIN c.aliases : c.aliases[a] \in DOMAIN c.cells} |->
        IF n \in DOMAIN c.aliases /\ c.aliases[n] \in DOMAIN c.cells
        THEN c.cells[c.aliases[n]]
        ELSE c.cells[n]]

\* the orders in which a HashMap with these keys may be iterated
IterOrders(keys) ==
    {o \in [1..Cardinality(keys) -> keys] : \A i, j \in DOMAIN o : i # j => o[i] # o[j]}

\* a comparison that keeps the first match whatever its length
BetterMatchFirstWins(len, best) == ~best.some

\* the comparison of one candidate with the best match so far
BetterMatch(len, best) == (~best.some) \/ len > best.len

\* the body of the loop of find_cell_for_path for the mapping n
Candidate(n, cell_path_obj, rel, best) ==
    IF IsPrefixSeq(cell_path_obj, rel) /\ BetterMatch(Len(cell_path_obj), best)
    THEN Some(n, Len(cell_path_obj))
    ELSE best

\* the loop of find_cell_for_path over cell_mappings in iteration order
RECURSIVE BestMatch(_, _, _, _)
BestMatch(order, mappings, rel, best) ==
    IF order = <<>> THEN best
    ELSE BestMatch(Tail(order), mappings, rel,
                   Candidate(Head(order), Components(mappings[Head(order)]), rel, best))

\* find_cell_for_path after path.strip_prefix(buck2_root)
FindRelative(c, order, sp) ==
    IF ~sp.ok THEN None ELSE BestMatch(order, CellMappings(c), sp.rel, None)

\* find_cell_for_path(path, buck2_root) for a path given by its components,
\* under one iteration order of cell_mappings
FindCellForPath(c, order, full) == FindRelative(c, order, StripPrefix(full, Buck2Root))

(***************************************************************************)
(* Enumerated inputs                                                       *)
(***************************************************************************)
Segs == {"third-party", "third-party-extra", "a", "b", "c"}

RECURSIVE SegPaths(_)
SegPaths(n) ==
    IF n = 0 THEN {<<>>}
    ELSE SegPaths(n - 1) \cup {Append(p, s) : p \in SegPaths(n - 1), s \in Segs}

\* project-relative paths of at most MaxSegs + 1 segments, as strings
Paths == {JoinSegs(p) : p \in SegPaths(MaxSegs + 1)}

(***************************************************************************)
(* Cell resolver runs                                                      *)
(***************************************************************************)
InitCell ==
    /\ cfg \in Configs
    /\ path \in Paths
    /\ found1 = None
    /\ found2 = None
    /\ cpc = "start"

\* one call of find_cell_for_path(buck2_root.join(path), buck2_root)
Resolve1 ==
    /\ cpc = "start"
    /\ \E order \in IterOrders(DOMAIN CellMappings(cfg)) :
          found1' = FindCellForPath(cfg, order, PathJoin(Buck2Root, path))
    /\ cpc' = "once"
    /\ UNCHANGED <<aliasVars, configVars, cfg, path, found2, labelVars, depVars, ruleVars, applyVars>>

\* a second call on the same path and configuration (another run)
Resolve2 ==
    /\ cpc = "once"
    /\ \E order \in IterOrders(DOMAIN CellMappings(cfg)) :
          found2' = FindCellForPath(cfg, order, PathJoin(Buck2Root, path))
    /\ cpc' = "twice"
    /\ UNCHANGED <<aliasVars, configVars, cfg, path, found1, labelVars, depVars, ruleVars, applyVars>>


NextCell == Resolve1 \/ Resolve2


(***************************************************************************)
(* Label rewriter                                                          *)
(***************************************************************************)
\* utils.rs load_cell_aliases: every cell maps to itself, and every alias
\* whose cell is declared maps to that cell
LoadCellAliases(c) ==
    [n \in DOMAIN c.cells \cup {a \in DOMAIN c.aliases : c.aliases[a] \in DOMAIN c.cells} |->
        IF n \in DOMAIN c.aliases /\ c.aliases[n] \in DOMAIN c.cells
        THEN c.aliases[n]
        ELSE n]

\* whether a stripped path has an empty parent
ParentIsEmpty(sp) == sp.ok /\ Len(sp.rel) = 1

\* is_in_root: the file's path relative to buck2_root has an empty parent
IsInRoot(f) == ParentIsEmpty(StripPrefix(f, Buck2Root))

\* "if not at root path, add '@' prefix"
AddAt(result, is_in_root) ==
    IF ~is_in_root /\ ~StartsWith(result, "@") THEN "@" \o result ELSE result

\* what follows the cell path in the path part, without a leading '/'
SkipSlash(remaining) ==
    IF StartsWith(remaining, "/") THEN StrFrom(remaining, 1) ELSE remaining

\* the removal of the cell path prefix from the path part of a label
StripCellPath(path_part, cell_path) ==
    IF cell_path # "" /\ StartsWith(path_part, cell_path)
    THEN SkipSlash(StrFrom(path_part, Len(cell_path)))
    ELSE path_part

\* new_after_sep
NewAfterSep(new_path_part, after_sep, colon_pos) ==
    IF new_path_part = ""
    THEN ":" \o StrFrom(after_sep, colon_pos + 1)
    ELSE new_path_part \o ":" \o StrFrom(after_sep, colon_pos + 1)

\* the end of rewrite_target_with_cell: the target itself, with '@' added to
\* a cell-qualified target of a file that is not at the root
Unrewritten(t, is_in_root) ==
    IF ~is_in_root /\ ~StartsWith(t, "@") /\ Contains(t, "//") /\ ~StartsWith(t, "//")
    THEN "@" \o t
    ELSE t

\* the bare branch once find_cell_for_path has answered fc
BareFound(t, after_sep, colon_pos, path_part, fc, c, is_in_root) ==
    IF ~fc.some THEN Unrewritten(t, is_in_root)
    ELSE IF fc.name \in DOMAIN c.cells
    THEN AddAt(fc.name \o "//" \o
               NewAfterSep(StripCellPath(path_part, c.cells[fc.name]), after_sep, colon_pos),
               is_in_root)
    ELSE AddAt(fc.name \o "//" \o after_sep, is_in_root)

\* the bare branch once the ':' is looked for
BareAt(t, after_sep, colon_pos, c, order, is_in_root) ==
    IF colon_pos < 0 THEN Unrewritten(t, is_in_root)
    ELSE BareFound(t, after_sep, colon_pos, StrTo(after_sep, colon_pos),
                   FindCellForPath(c, order,
                       IF StrTo(after_sep, colon_pos) = "" THEN Buck2Root
                       ELSE PathJoin(Buck2Root, StrTo(after_sep, colon_pos))),
                   c, is_in_root)

\* the branch for //path/to/target:name
RewriteBare(t, after_sep, c, order, is_in_root) ==
    BareAt(t, after_sep, Find(after_sep, ":"), c, order, is_in_root)

\* the cell-qualified branch once the path part is stripped
QualifiedStripped(t, cell_name, canonical_cell_name, after_sep, colon_pos, path_part,
                  new_path_part, is_in_root) ==
    IF colon_pos >= 0 /\ (canonical_cell_name # cell_name \/ new_path_part # path_part)
    THEN AddAt(canonical_cell_name \o "//" \o NewAfterSep(new_path_part, after_sep, colon_pos),
               is_in_root)
    ELSE Unrewritten(t, is_in_root)

\* the cell-qualified branch once the cell name is normalized
QualifiedAs(t, cell_name, canonical_cell_name, after_sep, colon_pos, cell_aliases, c,
            is_in_root) ==
    IF canonical_cell_name \in DOMAIN c.cells
    THEN QualifiedStripped(t, cell_name, canonical_cell_name, after_sep, colon_pos,
                           StrTo(after_sep, colon_pos),
                           StripCellPath(StrTo(after_sep, colon_pos),
                                         c.cells[canonical_cell_name]),
                           is_in_root)
    ELSE IF cell_name \in DOMAIN cell_aliases /\ cell_aliases[cell_name] # cell_name
    THEN AddAt(cell_aliases[cell_name] \o "//" \o after_sep, is_in_root)
    ELSE Unrewritten(t, is_in_root)

\* the branch for cell//path/to/target:name
RewriteQualified(t, cell_name, after_sep, cell_aliases, c, is_in_root) ==
    QualifiedAs(t, cell_name,
                IF cell_name \in DOMAIN cell_aliases THEN cell_aliases[cell_name]
                ELSE cell_name,
                after_sep, Find(after_sep, ":"), cell_aliases, c, is_in_root)

\* rewrite_target_with_cell once the "//" is looked for
RewriteAt(t, sep_pos, cell_aliases, c, order, is_in_root) ==
    IF sep_pos < 0 THEN Unrewritten(t, is_in_root)
    ELSE IF StrTo(t, sep_pos) = ""
    THEN RewriteBare(t, StrFrom(t, sep_pos + 2), c, order, is_in_root)
    ELSE RewriteQualified(t, StrTo(t, sep_pos), StrFrom(t, sep_pos + 2), cell_aliases, c,
                          is_in_root)

\* utils.rs rewrite_target_with_cell, under one iteration order of the cell
\* mappings that find_cell_for_path builds
RewriteTargetWithCell(t, cell_aliases, c, order, f) ==
    IF t = "" THEN t
    ELSE RewriteAt(t, Find(t, "//"), cell_aliases, c, order, IsInRoot(f))

\* the bare label of the specification's second end-to-end example
Example2Label == "//third-party/rust/crates/foo/1.0:foo"

\* the cell prefixes of the enumerated labels
Prefixes == {"", "third_party", "tp", "sub", "s", "@third_party", "@tp", "other"}

\* labels prefix//path:foo, and strings that are no labels
Labels ==
    {pre \o "//" \o JoinSegs(p) \o ":foo" : pre \in Prefixes, p \in SegPaths(MaxSegs)}
        \cup {"", "foo", "//a", "tp//third-party", Example2Label}

\* the BUCK file being generated: at the project root, below it, outside it
Files ==
    { Buck2Root \o <<"BUCK">>,
      Buck2Root \o <<"third-party", "BUCK">>,
      Buck2Root \o <<"a", "b", "BUCK">>,
      <<"/", "elsewhere", "BUCK">> }

InitLabel ==
    /\ cfg \in Configs
    /\ target \in Labels
    /\ file \in Files
    /\ out1 = ""
    /\ out2 = ""
    /\ lpc = "start"

\* rewrite_target_with_cell(target)
Rewrite1 ==
    /\ lpc = "start"
    /\ \E order \in IterOrders(DOMAIN CellMappings(cfg)) :
          out1' = RewriteTargetWithCell(target, LoadCellAliases(cfg), cfg, order, file)
    /\ lpc' = "once"
    /\ UNCHANGED <<aliasVars, configVars, cfg, target, file, out2, cellVars, depVars, ruleVars, applyVars>>

\* rewrite_target_with_cell applied to its own output
Rewrite2 ==
    /\ lpc = "once"
    /\ \E order \in IterOrders(DOMAIN CellMappings(cfg)) :
          out2' = RewriteTargetWithCell(out1, LoadCellAliases(cfg), cfg, order, file)
    /\ lpc' = "twice"
    /\ UNCHANGED <<aliasVars, configVars, cfg, target, file, out1, cellVars, depVars, ruleVars, applyVars>>

NextLabel == Rewrite1 \/ Rewrite2

(***************************************************************************)
(* The resolved graph: packages, compilation units, dependency edges       *)
(***************************************************************************)
\* RUST_CRATES_ROOT
RustCratesRoot == "third-party/rust/crates"

\* the source of a crates.io package; a first-party package has source None,
\* written ""
Registry == "registry+https://github.com/rust-lang/crates.io-index"

\* cargo_metadata::Target: its kinds, its name, whether it is tested, and its
\* source root
Unit(k, n, t, src) == [kind |-> k, name |-> n, test |-> t, src_path |-> src]

\* cargo_metadata::Package
Pkg(n, v, src, dir, ts, l) ==
    [name |-> n, version |-> v, source |-> src, manifest_dir |-> dir,
     targets |-> ts, links |-> l, edition |-> "2021"]

SerdeId == "registry+https://github.com/rust-lang/crates.io-index#serde@1.0.200"
SysId == "registry+https://github.com/rust-lang/crates.io-index#openssl-sys@0.9.1"
UtilId == "path+file:///ws/crates/util#util@0.1.0"
BothId == "path+file:///ws/crates/both#both@0.1.0"
TwoLibsId == "path+file:///ws/crates/twolibs#twolibs@0.1.0"
NoLibId == "path+file:///ws/crates/nolib#nolib@0.1.0"
ZlibId == "registry+https://github.com/rust-lang/crates.io-index#libz-sys@1.1.0"
GhostId == "registry+https://github.com/rust-lang/crates.io-index#ghost@0.0.1"
NativeId == "path+file:///ws/crates/native#native@0.1.0"

\* ctx.packages_map for the dependency packages of the model: two registry
\* packages, one of them with a build script and a links key, first-party
\* packages with one library unit, with a library and a binary of one name,
\* with two library-family units, with none, a registry package with a
\* links key and no build script, and a first-party package with a links key
\* and a build script
PackagesMap ==
    SerdeId :> Pkg("serde", "1.0.200", Registry,
                   "/home/u/.cargo/registry/src/serde-1.0.200",
                   <<Unit({"lib"}, "serde", TRUE,
                          "/home/u/.cargo/registry/src/serde-1.0.200/src/lib.rs")>>, "")
    @@ SysId :> Pkg("openssl-sys", "0.9.1", Registry,
                    "/home/u/.cargo/registry/src/openssl-sys-0.9.1",
                    <<Unit({"lib"}, "openssl_sys", TRUE,
                           "/home/u/.cargo/registry/src/openssl-sys-0.9.1/src/lib.rs"),
                      Unit({"custom-build"}, "build-script-build", FALSE,
                           "/home/u/.cargo/registry/src/openssl-sys-0.9.1/build.rs")>>, "openssl")
    @@ UtilId :> Pkg("util", "0.1.0", "", "/ws/crates/util",
                     <<Unit({"lib"}, "util", TRUE, "/ws/crates/util/src/lib.rs")>>, "")
    @@ BothId :> Pkg("both", "0.1.0", "", "/ws/crates/both",
                     <<Unit({"bin"}, "both", FALSE, "/ws/crates/both/src/main.rs"),
                       Unit({"lib"}, "both", TRUE, "/ws/crates/both/src/lib.rs"),
                       Unit({"test"}, "it", TRUE, "/ws/crates/both/tests/it.rs")>>, "")
    @@ TwoLibsId :> Pkg("twolibs", "0.1.0", "", "/ws/crates/twolibs",
                        <<Unit({"lib"}, "twolibs", TRUE, "/ws/crates/twolibs/src/lib.rs"),
                          Unit({"proc-macro"}, "twolibs_derive", FALSE,
                               "/ws/crates/twolibs/src/derive.rs")>>, "")
    @@ NoLibId :> Pkg("nolib", "0.1.0", "", "/ws/crates/nolib",
                      <<Unit({"bin"}, "nolib", FALSE, "/ws/crates/nolib/src/main.rs")>>, "")
    @@ ZlibId :> Pkg("libz-sys", "1.1.0", Registry,
                     "/home/u/.cargo/registry/src/libz-sys-1.1.0",
                     <<Unit({"lib"}, "libz_sys", TRUE,
                            "/home/u/.cargo/registry/src/libz-sys-1.1.0/src/lib.rs")>>, "z")
    @@ NativeId :> Pkg("native", "0.1.0", "", "/ws/crates/native",
                       <<Unit({"lib"}, "native", TRUE, "/ws/crates/native/src/lib.rs"),
                         Unit({"custom-build"}, "build-script-build", FALSE,
                              "/ws/crates/native/build.rs")>>, "native")

\* the package ids an edge of the set_deps runs may name; GhostId is not in
\* packages_map
DepIds == (DOMAIN PackagesMap \ {NativeId}) \cup {GhostId}

\* str::replace("-", "_")
RECURSIVE Normalize(_)
Normalize(s) ==
    IF s = "" THEN ""
    ELSE (IF SubSeq(s, 1, 1) = "-" THEN "_" ELSE SubSeq(s, 1, 1)) \o Normalize(StrFrom(s, 1))

\* the kinds of the library family
LibFamily == {"lib", "cdylib", "dylib", "rlib", "staticlib", "proc-macro"}

\* buckify.rs get_lib_targets
GetLibTargets(p) == SelectSeq(p.targets, LAMBDA t : t.kind \cap LibFamily # {})

\* the Bin units of a package
GetBinTargets(p) == SelectSeq(p.targets, LAMBDA t : "bin" \in t.kind)

(***************************************************************************)
(* Dependency classifier                                                   *)
(***************************************************************************)
\* DependencyKind, and the outcome of a DepKindInfo's platform predicate:
\* absent, matching the active target, not matching it
DependencyKinds == {"normal", "build", "dev"}
PlatformTargets == {"none", "match", "nomatch"}
DepKindInfos == [kind : DependencyKinds, target : PlatformTargets]

\* CargoTargetKind as set_deps is called with it
UnitKinds == {"Lib", "Bin", "Test", "CustomBuild"}

\* the number of (kind, platform) pairs of an enumerated edge
MaxKinds == 2

\* the number of edges of an enumerated node
MaxEdges == 2

\* buckify.rs check_dep_target
CheckDepTarget(dk) == dk.target = "none" \/ dk.target = "match"

\* a kind test that takes Development edges for every unit kind
KindAppliesDevAlways(k, dk) ==
    \/ k # "CustomBuild" /\ dk.kind = "normal"
    \/ k = "CustomBuild" /\ dk.kind = "build"
    \/ dk.kind = "dev"

\* the kind test of set_deps for one DepKindInfo
KindApplies(k, dk) ==
    \/ k # "CustomBuild" /\ dk.kind = "normal"
    \/ k = "CustomBuild" /\ dk.kind = "build"
    \/ k = "Test" /\ dk.kind = "dev"

\* a selection that takes the kind and the platform from different pairs
EdgeSelectedAcrossPairs(dep, k) ==
    /\ \E dk \in dep.dep_kinds : KindApplies(k, dk)
    /\ \E dk \in dep.dep_kinds : CheckDepTarget(dk)

\* the selection of an edge: dep.dep_kinds.iter().any(...)
EdgeSelected(dep, k) ==
    \E dk \in dep.dep_kinds : KindApplies(k, dk) /\ CheckDepTarget(dk)

\* utils.rs rewrite_target_if_needed; c.file is the BUCK file being generated
RewriteTargetIfNeeded(t, c, order) ==
    IF ~c.align_cells THEN t
    ELSE RewriteTargetWithCell(t, LoadCellAliases(c.buckconfig), c.buckconfig, order, c.file)

\* the rule fields set_deps writes, and whether the process goes on
DepAcc(d, nd, st) == [deps |-> d, named_deps |-> nd, status |-> st]

\* the insertion of a reference for dep, positional or renamed
InsertDep(acc, dep, dep_package, rewritten_target) ==
    IF dep.name # Normalize(dep_package.name)
    THEN DepAcc(acc.deps,
                [n \in DOMAIN acc.named_deps \cup {dep.name} |->
                    IF n = dep.name THEN rewritten_target ELSE acc.named_deps[n]],
                acc.status)
    ELSE DepAcc(acc.deps \cup {rewritten_target}, acc.named_deps, acc.status)

\* a first-party branch that takes the first library unit when there are several
FirstPartyDepFirstLib(acc, dep, dep_package, c, order) ==
    LET sp == StripPrefix(Components(dep_package.manifest_dir), Buck2Root)
        dep_lib_targets == GetLibTargets(dep_package)
        target_label == JoinSegs(sp.rel) \o ":" \o dep_lib_targets[1].name
    IN  IF ~sp.ok \/ Len(dep_lib_targets) < 1
        THEN DepAcc(acc.deps, acc.named_deps, "exit")
        ELSE InsertDep(acc, dep, dep_package, RewriteTargetIfNeeded(target_label, c, order))

\* the first-party branch of set_deps
FirstPartyDep(acc, dep, dep_package, c, order) ==
    LET sp == StripPrefix(Components(dep_package.manifest_dir), Buck2Root)
        dep_bin_targets == GetBinTargets(dep_package)
        dep_lib_targets == GetLibTargets(dep_package)
        buckal_name ==
            IF \E i \in DOMAIN dep_bin_targets :
                    dep_bin_targets[i].name = dep_lib_targets[1].name
            THEN "lib" \o dep_lib_targets[1].name
            ELSE dep_lib_targets[1].name
        target_label == JoinSegs(sp.rel) \o ":" \o buckal_name
    IN  IF ~sp.ok \/ Len(dep_lib_targets) # 1
        THEN DepAcc(acc.deps, acc.named_deps, "exit")
        ELSE InsertDep(acc, dep, dep_package, RewriteTargetIfNeeded(target_label, c, order))

\* the third-party branch of set_deps
ThirdPartyDep(acc, dep, dep_package, c, order) ==
    LET use_alias == c.inherit_workspace_deps /\ c.is_root
        dep_target ==
            IF use_alias
            THEN "//third-party/rust:" \o dep_package.name
            ELSE "//" \o RustCratesRoot \o "/" \o dep_package.name \o "/"
                    \o dep_package.version \o ":" \o dep_package.name
    IN  InsertDep(acc, dep, dep_package, RewriteTargetIfNeeded(dep_target, c, order))

\* the body of the loop of set_deps for one edge of node.deps
SetDepsEdge(acc, dep, k, c, order) ==
    IF acc.status # "running" \/ dep.pkg \notin DOMAIN PackagesMap \/ ~EdgeSelected(dep, k)
    THEN acc
    ELSE IF PackagesMap[dep.pkg].source = ""
    THEN FirstPartyDep(acc, dep, PackagesMap[dep.pkg], c, order)
    ELSE ThirdPartyDep(acc, dep, PackagesMap[dep.pkg], c, order)

\* set_deps over a whole edge list; a is the rule after the iteration over
\* the first edge
RECURSIVE SetDeps(_, _, _, _, _)
SetDeps(acc, edges, k, c, order) ==
    IF edges = <<>> THEN acc
    ELSE CHOOSE r \in {SetDeps(a, Tail(edges), k, c, order) :
                          a \in {SetDepsEdge(acc, Head(edges), k, c, order)}} : TRUE

\* the (kind, platform) pair sets of an edge, of at most MaxKinds pairs
KindSets == {x \in SUBSET DepKindInfos : x # {} /\ Cardinality(x) <= MaxKinds}

\* cargo_metadata::NodeDep; name is the crate name of the package unless the
\* dependency is renamed
Edge(id, renamed, ks) ==
    [pkg |-> id,
     name |-> IF renamed THEN "renamed"
              ELSE IF id \in DOMAIN PackagesMap THEN Normalize(PackagesMap[id].name)
              ELSE "ghost",
     dep_kinds |-> ks]

\* every edge of the model
Edges == {Edge(id, r, ks) : id \in DepIds, r \in BOOLEAN, ks \in KindSets}

\* the edges that nodes of several edges are made of
CoreEdges ==
    {Edge(id, r, {[kind |-> "normal", target |-> "none"]}) :
        id \in {SerdeId, UtilId, TwoLibsId}, r \in BOOLEAN}
    \cup {Edge(SerdeId, FALSE, {[kind |-> "dev", target |-> "none"]}),
          Edge(SysId, FALSE, {[kind |-> "build", target |-> "match"]})}

RECURSIVE SeqsOver(_, _)
SeqsOver(S, n) ==
    IF n = 0 THEN {<<>>} ELSE {Append(q, x) : q \in SeqsOver(S, n - 1), x \in S}

\* node.deps: one edge of any shape, or 2..MaxEdges core edges
Nodes ==
    {<<e>> : e \in Edges} \cup UNION {SeqsOver(CoreEdges, n) : n \in 2..MaxEdges}

RootBuck == Buck2Root \o <<"BUCK">>
SubBuck == Buck2Root \o <<"crates", "app", "BUCK">>

\* the cell configuration of the set_deps runs
DepsConfig ==
    [cells |-> ("third_party" :> "third-party"), aliases |-> ("tp" :> "third_party")]

\* the run contexts: the repository flags, whether the node is the workspace
\* root, the cell configuration and the BUCK file being generated
Contexts ==
    {[align_cells |-> a, inherit_workspace_deps |-> i, is_root |-> r,
      buckconfig |-> DepsConfig, file |-> f] :
        a \in BOOLEAN, i \in BOOLEAN, r \in BOOLEAN, f \in {RootBuck, SubBuck}}

\* the iteration orders of the cell mappings a rewrite loads, if it loads any
RewriteOrders(c) ==
    IF c.align_cells THEN IterOrders(DOMAIN CellMappings(c.buckconfig)) ELSE {<<>>}

InitDeps ==
    /\ kind \in UnitKinds
    /\ ctx \in {c \in Contexts : ~c.align_cells => c.file = RootBuck}
    /\ node \in Nodes
    /\ nEdges = 0
    /\ deps = {}
    /\ named_deps = EmptyMap
    /\ dpc = "running"

\* the rule and the call after an iteration that left acc
DepsSet(acc) ==
    /\ deps' = acc.deps
    /\ named_deps' = acc.named_deps
    /\ dpc' = acc.status

\* one iteration of the loop of set_deps, over the next edge of node.deps
SetDepsStep ==
    /\ dpc = "running"
    /\ nEdges < Len(node)
    /\ \E order \in RewriteOrders(ctx) :
          DepsSet(SetDepsEdge(DepAcc(deps, named_deps, dpc), node[nEdges + 1],
                              kind, ctx, order))
    /\ nEdges' = nEdges + 1
    /\ UNCHANGED <<aliasVars, configVars, kind, ctx, node, cfg, cellVars, labelVars, ruleVars, applyVars>>

\* the end of node.deps: set_deps returns
SetDepsReturn ==
    /\ dpc = "running"
    /\ nEdges = Len(node)
    /\ dpc' = "done"
    /\ UNCHANGED <<aliasVars, configVars, kind, ctx, node, nEdges, deps, named_deps, cfg, cellVars, labelVars, ruleVars, applyVars>>

NextDeps == SetDepsStep \/ SetDepsReturn

(***************************************************************************)
(* Rule-graph translator                                                   *)
(***************************************************************************)
\* what an emit function leaves: a rule ("ok"), a panic, or a process exit
Emitted(st, r) == [st |-> st, rule |-> r]

\* buckify.rs get_vendor_target
GetVendorTarget(package) == ":" \o package.name \o "-vendor"

\* buckify.rs get_build_name: strip_suffix("-build")
GetBuildName(s) == IF EndsWith(s, "-build") THEN StrTo(s, Len(s) - 6) ELSE s

\* the rustc_flags entry every compile rule starts with
ManifestFlags(package) == "@$(location :" \o package.name \o "-manifest[env_flags])"

\* the crate root under vendor/, for a stripped source path
VendorPath(sp) == [ok |-> sp.ok, path |-> "vendor/" \o JoinSegs(sp.rel)]

\* the crate root: src_path.strip_prefix(manifest_dir) under vendor/
CrateRoot(unit, manifest_dir) ==
    VendorPath(StripPrefix(Components(unit.src_path), Components(manifest_dir)))

\* the units of a package with a CustomBuild kind
GetCustomBuildTargets(package) ==
    SelectSeq(package.targets, LAMBDA t : "custom-build" \in t.kind)

\* the units of a package with a Test kind
GetTestTargets(package) == SelectSeq(package.targets, LAMBDA t : "test" \in t.kind)

\* a compile rule as emit_rust_library, emit_rust_binary, emit_rust_test and
\* emit_buildscript_build leave it, given the crate root cr and the outcome d
\* of set_deps: the crate root is computed first and panics if the source is
\* not below the manifest directory, then set_deps may exit the process
RustRule(rule, package, n, unit, buckal_name, visibility, cr, d) ==
    IF ~cr.ok THEN Emitted("panic", <<>>)
    ELSE IF d.status = "exit" THEN Emitted("exit", <<>>)
    ELSE Emitted("ok",
            [rule |-> rule,
             name |-> buckal_name,
             srcs |-> {GetVendorTarget(package)},
             crate_name |-> Normalize(unit.name),
             edition |-> package.edition,
             features |-> n.features,
             rustc_flags |-> {ManifestFlags(package)},
             visibility |-> visibility,
             proc_macro |-> rule = "rust_library" /\ "proc-macro" \in unit.kind,
             crate_root |-> cr.path,
             env |-> EmptyMap,
             deps |-> d.deps,
             named_deps |-> d.named_deps])

\* the steps the four emit functions share: the rule is built, the crate
\* root is set, set_deps is called for the kind k
CompileRule(rule, package, n, unit, buckal_name, visibility, k, c, order) ==
    RustRule(rule, package, n, unit, buckal_name, visibility,
             CrateRoot(unit, package.manifest_dir),
             SetDeps(DepAcc({}, EmptyMap, "running"), n.deps, k, c, order))

\* buckify.rs emit_rust_library
EmitRustLibrary(package, n, lib_target, buckal_name, c, order) ==
    CompileRule("rust_library", package, n, lib_target, buckal_name, {"PUBLIC"}, "Lib", c, order)

\* buckify.rs emit_rust_binary
EmitRustBinary(package, n, bin_target, buckal_name, c, order) ==
    CompileRule("rust_binary", package, n, bin_target, buckal_name, {"PUBLIC"}, "Bin", c, order)

\* buckify.rs emit_rust_test
EmitRustTest(package, n, test_target, buckal_name, c, order) ==
    CompileRule("rust_test", package, n, test_target, buckal_name, {"PUBLIC"}, "Test", c, order)

\* buckify.rs emit_buildscript_build
EmitBuildscriptBuild(build_target, package, n, c, order) ==
    CompileRule("rust_binary", package, n, build_target,
                package.name \o "-" \o build_target.name, {}, "CustomBuild", c, order)

\* the reference to the build-script-run metadata of a dependency with a
\* links key
LinksLabel(dep_package, c, order) ==
    RewriteTargetIfNeeded(
        "//" \o RustCratesRoot \o "/" \o dep_package.name \o "/" \o dep_package.version
            \o ":" \o dep_package.name \o "-"
            \o GetBuildName(GetCustomBuildTargets(dep_package)[1].name) \o "-run[metadata]",
        c, order)

\* a selection of the links edges that takes every kind of pair
LinksDepsAnyKind(n) ==
    {i \in DOMAIN n.deps :
        /\ n.deps[i].pkg \in DOMAIN PackagesMap
        /\ PackagesMap[n.deps[i].pkg].links # ""
        /\ \E dk \in n.deps[i].dep_kinds : CheckDepTarget(dk)}

\* the edges of a node that emit_buildscript_run looks at: Normal edges for
\* the active platform on packages with a links key
LinksDeps(n) ==
    {i \in DOMAIN n.deps :
        /\ n.deps[i].pkg \in DOMAIN PackagesMap
        /\ PackagesMap[n.deps[i].pkg].links # ""
        /\ \E dk \in n.deps[i].dep_kinds : dk.kind = "normal" /\ CheckDepTarget(dk)}

\* buckify.rs emit_buildscript_run
EmitBuildscriptRun(package, n, build_target, c, order) ==
    IF \E i \in LinksDeps(n) : GetCustomBuildTargets(PackagesMap[n.deps[i].pkg]) = <<>>
    THEN Emitted("panic", <<>>)
    ELSE Emitted("ok",
            [rule |-> "buildscript_run",
             name |-> package.name \o "-" \o GetBuildName(build_target.name) \o "-run",
             package_name |-> package.name,
             buildscript_rule |-> ":" \o package.name \o "-" \o build_target.name,
             env_srcs |-> {":" \o package.name \o "-manifest[env_dict]"}
                 \cup {LinksLabel(PackagesMap[n.deps[i].pkg], c, order) : i \in LinksDeps(n)},
             features |-> n.features,
             version |-> package.version,
             manifest_dir |-> ":" \o package.name \o "-vendor",
             visibility |-> {"PUBLIC"}])

\* the rules as_rust_rule_mut answers for
IsRustRule(r) == r.rule \in {"rust_library", "rust_binary", "rust_test"}

\* BTreeMap::insert
MapInsert(m, k, v) == [x \in DOMAIN m \cup {k} |-> IF x = k THEN v ELSE m[x]]

\* buckify.rs patch_with_buildscript
PatchWithBuildscript(rust_rule, build_target, package) ==
    LET build_name == GetBuildName(build_target.name)
    IN  [rust_rule EXCEPT
            !.env = MapInsert(@, "OUT_DIR",
                "$(location :" \o package.name \o "-" \o build_name \o "-run[out_dir])"),
            !.rustc_flags = @ \cup
                {"@$(location :" \o package.name \o "-" \o build_name \o "-run[rustc_flags])"}]

\* a patch that reaches the library rules only
PatchAllLibraries(rules, build_target, package) ==
    [i \in DOMAIN rules |->
        IF rules[i].rule = "rust_library"
        THEN PatchWithBuildscript(rules[i], build_target, package)
        ELSE rules[i]]

\* the patch of every compile rule emitted so far
PatchAll(rules, build_target, package) ==
    [i \in DOMAIN rules |->
        IF IsRustRule(rules[i]) THEN PatchWithBuildscript(rules[i], build_target, package)
        ELSE rules[i]]

\* an emit function that takes the vendor rule name for the strip prefix
EmitHttpArchiveVendorPrefix(package, c) ==
    LET buckal_name == package.name \o "-" \o package.version
    IN  IF buckal_name \notin DOMAIN c.checksums_map THEN Emitted("panic", <<>>)
        ELSE Emitted("ok",
                [rule |-> "http_archive",
                 name |-> package.name \o "-vendor",
                 urls |-> {"https://static.crates.io/crates/" \o package.name \o "/"
                              \o package.name \o "-" \o package.version \o ".crate"},
                 sha256 |-> c.checksums_map[buckal_name],
                 type |-> "tar.gz",
                 strip_prefix |-> package.name \o "-vendor",
                 out |-> "vendor"])

\* buckify.rs emit_http_archive
EmitHttpArchive(package, c) ==
    LET buckal_name == package.name \o "-" \o package.version
    IN  IF buckal_name \notin DOMAIN c.checksums_map THEN Emitted("panic", <<>>)
        ELSE Emitted("ok",
                [rule |-> "http_archive",
                 name |-> package.name \o "-vendor",
                 urls |-> {"https://static.crates.io/crates/" \o package.name \o "/"
                              \o package.name \o "-" \o package.version \o ".crate"},
                 sha256 |-> c.checksums_map[buckal_name],
                 type |-> "tar.gz",
                 strip_prefix |-> buckal_name,
                 out |-> "vendor"])

\* buckify.rs emit_filegroup
EmitFilegroup(package) ==
    [rule |-> "filegroup", name |-> package.name \o "-vendor",
     srcs |-> [include |-> {"**/**"}], out |-> "vendor"]

\* buckify.rs emit_cargo_manifest
EmitCargoManifest(package) ==
    [rule |-> "cargo_manifest", name |-> package.name \o "-manifest",
     vendor |-> GetVendorTarget(package)]

\* the outcome of a run of emit calls: the rules when every call returned,
\* else the way the first failing call ended
Collect(emitted) ==
    LET bad == {i \in DOMAIN emitted : emitted[i].st # "ok"}
    IN  IF bad = {}
        THEN [st |-> "ok", rules |-> [i \in DOMAIN emitted |-> emitted[i].rule]]
        ELSE [st |-> emitted[CHOOSE i \in bad : \A j \in bad : i <= j].st, rules |-> <<>>]

\* a rule name for a library unit that never takes the lib prefix
LibBuckalNamePlain(lib_target, bin_targets) == lib_target.name

\* the rule name of a library unit of a first-party package
LibBuckalName(lib_target, bin_targets) ==
    IF \E i \in DOMAIN bin_targets : bin_targets[i].name = lib_target.name
    THEN "lib" \o lib_target.name
    ELSE lib_target.name

\* an implicit dependency put on every binary, with a library of its name or
\* without
WithOwnLibraryAlways(e, package, bin_target) ==
    IF e.st = "ok"
    THEN Emitted("ok", [e.rule EXCEPT !.deps = @ \cup {":lib" \o bin_target.name}])
    ELSE e

\* the implicit dependency of a binary on the library of its name
WithOwnLibrary(e, package, bin_target) ==
    IF e.st = "ok" /\ \E i \in DOMAIN GetLibTargets(package) :
                          GetLibTargets(package)[i].name = bin_target.name
    THEN Emitted("ok", [e.rule EXCEPT !.deps = @ \cup {":lib" \o bin_target.name}])
    ELSE e

\* the body of the loop of buckify_root_node over the Binary units
RootBinary(package, n, bin_target, c, order) ==
    WithOwnLibrary(EmitRustBinary(package, n, bin_target, bin_target.name, c, order),
                   package, bin_target)

\* a loop body that emits the unit tests of every library when tests are on
RootLibraryTestsAll(package, n, lib_target, c, order) ==
    <<EmitRustLibrary(package, n, lib_target,
                      LibBuckalName(lib_target, GetBinTargets(package)), c, order)>>
    \o (IF ~c.ignore_tests
        THEN <<EmitRustTest(package, n, lib_target, lib_target.name \o "-unittest", c, order)>>
        ELSE <<>>)

\* the body of the loop of buckify_root_node over the library-family units:
\* the library, and its unit tests
RootLibrary(package, n, lib_target, c, order) ==
    <<EmitRustLibrary(package, n, lib_target,
                      LibBuckalName(lib_target, GetBinTargets(package)), c, order)>>
    \o (IF ~c.ignore_tests /\ lib_target.test
        THEN <<EmitRustTest(package, n, lib_target, lib_target.name \o "-unittest", c, order)>>
        ELSE <<>>)

\* the fixtures of an integration test: the location of the binary, and the
\* library, whose name is the normalized package name
WithFixtures(e, package) ==
    LET package_name == Normalize(package.name)
        bin_targets == GetBinTargets(package)
        lib_targets == GetLibTargets(package)
        lib_alias == \E i \in DOMAIN bin_targets : bin_targets[i].name = package_name
        binary == IF lib_alias
                  THEN "CARGO_BIN_EXE_" \o package_name :> "$(location :" \o package_name \o ")"
                  ELSE EmptyMap
        library == IF \E i \in DOMAIN lib_targets : lib_targets[i].name = package_name
                   THEN {IF lib_alias THEN ":lib" \o package_name ELSE ":" \o package_name}
                   ELSE {}
    IN  IF e.st = "ok"
        THEN Emitted("ok", [e.rule EXCEPT !.env = binary @@ @, !.deps = @ \cup library])
        ELSE e

\* the body of the loop of buckify_root_node over the integration Test units
RootTest(package, n, test_target, c, order) ==
    WithFixtures(EmitRustTest(package, n, test_target, test_target.name, c, order), package)

\* where buckify_root_node goes on when i units of the loop of a phase are
\* handled: the next loop with a unit left, the build-script part, the return
RootPosition(package, c, phase, i) ==
    LET iBin == IF phase = "bins" THEN i ELSE 0
        iLib == IF phase = "libs" THEN i ELSE 0
        iTest == IF phase = "tests" THEN i ELSE 0
    IN  IF phase = "bins" /\ iBin < Len(GetBinTargets(package))
        THEN [pc |-> "bins", i |-> iBin]
        ELSE IF phase \in {"bins", "libs"} /\ iLib < Len(GetLibTargets(package))
        THEN [pc |-> "libs", i |-> iLib]
        ELSE IF ~c.ignore_tests /\ iTest < Len(GetTestTargets(package))
        THEN [pc |-> "tests", i |-> iTest]
        ELSE IF GetCustomBuildTargets(package) # <<>>
        THEN [pc |-> "build", i |-> 0]
        ELSE [pc |-> "done", i |-> 0]

\* the number of compilation units of an enumerated first-party package
MaxUnits == 3

\* the names of the enumerated first-party packages
RootNames == {"foo", "my-app"}

\* the manifest directory of an enumerated first-party package
RootDir(n) == "/ws/" \o n

\* the units a first-party package named n may have, in the order cargo lists
\* them: the library (tested or not), binaries (one whose source lies outside
\* the package), integration tests (one named <library>-unittest), the
\* build script
RootUnits(n) ==
    <<Unit({"lib"}, Normalize(n), TRUE, RootDir(n) \o "/src/lib.rs"),
      Unit({"lib"}, Normalize(n), FALSE, RootDir(n) \o "/src/lib.rs"),
      Unit({"bin"}, n, FALSE, RootDir(n) \o "/src/main.rs"),
      Unit({"bin"}, "cli", FALSE, RootDir(n) \o "/src/bin/cli.rs"),
      Unit({"bin"}, "ext", FALSE, "/elsewhere/ext.rs"),
      Unit({"test"}, "it", TRUE, RootDir(n) \o "/tests/it.rs"),
      Unit({"test"}, Normalize(n) \o "-unittest", TRUE,
           RootDir(n) \o "/tests/" \o Normalize(n) \o "-unittest.rs"),
      Unit({"custom-build"}, "build-script-build", FALSE, RootDir(n) \o "/build.rs")>>

\* the elements of a sequence at the positions of a set, in order
Sub(s, idx) == SelectSeq([i \in DOMAIN s |-> [at |-> i, u |-> s[i]]], LAMBDA x : x.at \in idx)

\* the enumerated first-party packages: at most MaxUnits of the units, with
\* one library at most
RootPackages ==
    {Pkg(n, "0.1.0", "", RootDir(n),
         [i \in DOMAIN Sub(RootUnits(n), idx) |-> Sub(RootUnits(n), idx)[i].u], "") :
        n \in RootNames,
        idx \in {x \in SUBSET (1..8) : Cardinality(x) <= MaxUnits /\ ~({1, 2} \subseteq x)}}

\* a registry package with a binary and no library
BinOnly ==
    Pkg("tool", "2.0.0", Registry, "/home/u/.cargo/registry/src/tool-2.0.0",
        <<Unit({"bin"}, "tool", FALSE, "/home/u/.cargo/registry/src/tool-2.0.0/src/main.rs")>>,
        "")

\* the enumerated dependency packages
DepPackages == {PackagesMap[SerdeId], PackagesMap[SysId], PackagesMap[ZlibId], BinOnly}

\* cargo_metadata::Node: the edges and the activated features
NodeOf(edges, features) == [deps |-> edges, features |-> features]

\* the nodes every enumerated package is translated with
CoreNodes ==
    {NodeOf(<<>>, {}),
     NodeOf(<<Edge(SerdeId, FALSE, {[kind |-> "normal", target |-> "none"]})>>, {"std"}),
     NodeOf(<<Edge(SysId, FALSE, {[kind |-> "normal", target |-> "match"]}),
              Edge(UtilId, TRUE, {[kind |-> "normal", target |-> "none"]}),
              Edge(SerdeId, FALSE, {[kind |-> "dev", target |-> "none"],
                                    [kind |-> "build", target |-> "none"]})>>, {}),
     NodeOf(<<Edge(BothId, FALSE, {[kind |-> "normal", target |-> "none"]}),
              Edge(ZlibId, FALSE, {[kind |-> "normal", target |-> "none"]})>>, {"std"}),
     NodeOf(<<Edge(TwoLibsId, FALSE, {[kind |-> "dev", target |-> "none"]})>>, {})}

\* further nodes, for the packages with a build script: edges on packages
\* with a links key that are not Normal or not for the platform, and a
\* Normal edge on a first-party package with a links key
LinksNodes ==
    {NodeOf(<<Edge(SysId, FALSE, {[kind |-> "build", target |-> "none"],
                                  [kind |-> "dev", target |-> "match"]}),
              Edge(ZlibId, FALSE, {[kind |-> "normal", target |-> "nomatch"]})>>, {}),
     NodeOf(<<Edge(NativeId, FALSE, {[kind |-> "normal", target |-> "none"]})>>, {})}

\* the nodes of the translator runs
RuleNodes == CoreNodes \cup LinksNodes

\* ctx.checksums_map
ChecksumsMap ==
    "serde-1.0.200" :> "sha-serde" @@ "openssl-sys-0.9.1" :> "sha-openssl-sys"
        @@ "libz-sys-1.1.0" :> "sha-libz-sys" @@ "tool-2.0.0" :> "sha-tool"
        @@ "meta-1.0.0+build.1" :> "sha-meta"

\* the run contexts of the translator: those of set_deps with the
\* ignore_tests flag and the checksum table, full or empty
RuleContexts ==
    {[align_cells |-> c.align_cells, inherit_workspace_deps |-> c.inherit_workspace_deps,
      is_root |-> c.is_root, buckconfig |-> c.buckconfig, file |-> c.file,
      ignore_tests |-> t, checksums_map |-> m] :
        c \in {x \in Contexts : /\ ~x.align_cells => x.file = RootBuck
                                /\ x.inherit_workspace_deps = x.is_root},
        t \in BOOLEAN, m \in {ChecksumsMap, EmptyMap}}

\* a translator run: one package, its node, the run context; the nodes of
\* LinksNodes go with the first-party packages that have a build script and
\* with the dependency packages
Jobs ==
    {[package |-> p, node |-> n, ctx |-> c] :
        p \in RootPackages, n \in CoreNodes,
        c \in {x \in RuleContexts : x.checksums_map = ChecksumsMap}}
    \cup {[package |-> p, node |-> n, ctx |-> c] :
            p \in {x \in RootPackages : GetCustomBuildTargets(x) # <<>>}, n \in LinksNodes,
            c \in {x \in RuleContexts : x.checksums_map = ChecksumsMap}}
    \cup {[package |-> p, node |-> n, ctx |-> c] :
            p \in DepPackages, n \in RuleNodes,
            c \in {x \in RuleContexts : ~x.ignore_tests}}

InitRules ==
    /\ job \in Jobs
    /\ buck_rules = <<>>
    /\ bpc = "start"
    /\ bi = 0

\* the rules of one step pushed, and the call moved on; or the call ended by
\* the failure of the step
Pushed(r, next) ==
    IF r.st = "ok"
    THEN buck_rules' = buck_rules \o r.rules /\ bpc' = next.pc /\ bi' = next.i
    ELSE buck_rules' = buck_rules /\ bpc' = r.st /\ bi' = bi

\* buckify_root_node up to the loops: the vendor group and the manifest rule
RootBegin ==
    /\ bpc = "start"
    /\ job.package.source = ""
    /\ Pushed([st |-> "ok",
               rules |-> <<EmitFilegroup(job.package), EmitCargoManifest(job.package)>>],
              RootPosition(job.package, job.ctx, "bins", 0))
    /\ UNCHANGED <<aliasVars, configVars, job, cfg, cellVars, labelVars, depVars, applyVars>>

\* one iteration of the loop over the Binary units
RootBin ==
    /\ bpc = "bins"
    /\ \E order \in RewriteOrders(job.ctx) :
          Pushed(Collect(<<RootBinary(job.package, job.node,
                                      GetBinTargets(job.package)[bi + 1], job.ctx, order)>>),
                 RootPosition(job.package, job.ctx, "bins", bi + 1))
    /\ UNCHANGED <<aliasVars, configVars, job, cfg, cellVars, labelVars, depVars, applyVars>>

\* one iteration of the loop over the library-family units
RootLib ==
    /\ bpc = "libs"
    /\ \E order \in RewriteOrders(job.ctx) :
          Pushed(Collect(RootLibrary(job.package, job.node,
                                     GetLibTargets(job.package)[bi + 1], job.ctx, order)),
                 RootPosition(job.package, job.ctx, "libs", bi + 1))
    /\ UNCHANGED <<aliasVars, configVars, job, cfg, cellVars, labelVars, depVars, applyVars>>

\* one iteration of the loop over the integration Test units
RootTests ==
    /\ bpc = "tests"
    /\ \E order \in RewriteOrders(job.ctx) :
          Pushed(Collect(<<RootTest(job.package, job.node,
                                    GetTestTargets(job.package)[bi + 1], job.ctx, order)>>),
                 RootPosition(job.package, job.ctx, "tests", bi + 1))
    /\ UNCHANGED <<aliasVars, configVars, job, cfg, cellVars, labelVars, depVars, applyVars>>

\* buckify_dep_node up to the build-script part: the library unit is looked
\* up, then the vendor fetch, the manifest and the library rule are pushed
DepBegin ==
    /\ bpc = "start"
    /\ job.package.source # ""
    /\ \E order \in RewriteOrders(job.ctx) :
          LET lib_targets == GetLibTargets(job.package)
          IN  Pushed(IF lib_targets = <<>> THEN [st |-> "panic", rules |-> <<>>]
                     ELSE Collect(<<EmitHttpArchive(job.package, job.ctx),
                                    Emitted("ok", EmitCargoManifest(job.package)),
                                    EmitRustLibrary(job.package, job.node, lib_targets[1],
                                                    job.package.name, job.ctx, order)>>),
                     [pc |-> IF GetCustomBuildTargets(job.package) # <<>> THEN "build"
                             ELSE "done",
                      i |-> 0])
    /\ UNCHANGED <<aliasVars, configVars, job, cfg, cellVars, labelVars, depVars, applyVars>>

\* the rules after the build-script part, and how the call ended
BuildscriptPushed(r, build_target) ==
    /\ buck_rules' = PatchAll(buck_rules, build_target, job.package)
                        \o (IF r.st = "ok" THEN r.rules ELSE <<>>)
    /\ bpc' = IF r.st = "ok" THEN "done" ELSE r.st
    /\ bi' = bi

\* the build-script part of both functions: the compile rules pushed so far
\* are patched, then the build-script rules are pushed
Buildscript ==
    /\ bpc = "build"
    /\ \E order \in RewriteOrders(job.ctx) :
          \E build_target \in {GetCustomBuildTargets(job.package)[1]} :
              BuildscriptPushed(
                  Collect(<<EmitBuildscriptBuild(build_target, job.package, job.node,
                                                 job.ctx, order),
                            EmitBuildscriptRun(job.package, job.node, build_target,
                                               job.ctx, order)>>),
                  build_target)
    /\ UNCHANGED <<aliasVars, configVars, job, cfg, cellVars, labelVars, depVars, applyVars>>

NextRules == RootBegin \/ RootBin \/ RootLib \/ RootTests \/ DepBegin \/ Buildscript

(***************************************************************************)
(* Change applier                                                          *)
(***************************************************************************)
\* the number of entries of an enumerated change set
MaxChanges == 2

\* ctx.workspace_root, and the pattern of the identifiers apply never removes
WorkspaceRoot == "/ws"
SkipPattern == "path+file://" \o WorkspaceRoot

\* ctx.root.id
RootId == "path+file:///ws#app@0.1.0"

\* identifiers of packages that left the graph: an older serde, a version with
\* build metadata, a path package outside the workspace whose identifier
\* has no name, and serde 1.0.200 as it came from a git source
SerdeOldId == "registry+https://github.com/rust-lang/crates.io-index#serde@1.0.100"
MetaId == "registry+https://github.com/rust-lang/crates.io-index#meta@1.0.0+build.1"
BadId == "path+file:///outside/ext#0.2.0"
SerdeGitId == "git+https://github.com/serde-rs/serde#serde@1.0.200"
ToolId == "registry+https://github.com/rust-lang/crates.io-index#tool@2.0.0"

\* ctx.packages_map of the apply runs
ApplyPackages ==
    PackagesMap
    @@ ToolId :> BinOnly
    @@ MetaId :> Pkg("meta", "1.0.0+build.1", Registry,
                     "/home/u/.cargo/registry/src/meta-1.0.0+build.1",
                     <<Unit({"lib"}, "meta", TRUE,
                            "/home/u/.cargo/registry/src/meta-1.0.0+build.1/src/lib.rs")>>, "")
    @@ RootId :> Pkg("app", "0.1.0", "", "/ws",
                     <<Unit({"bin"}, "app", FALSE, "/ws/src/main.rs")>>, "")

\* ctx.nodes_map of the apply runs; GhostId has no node
NodesMap ==
    [id \in DOMAIN ApplyPackages |->
        IF id = BothId
        THEN NodeOf(<<Edge(SerdeId, FALSE, {[kind |-> "normal", target |-> "none"]})>>, {})
        ELSE IF id = RootId
        THEN NodeOf(<<Edge(BothId, FALSE, {[kind |-> "normal", target |-> "none"]})>>, {})
        ELSE NodeOf(<<>>, {"std"})]

\* the run context of the rules generated for a change entry
ApplyRuleContext ==
    [align_cells |-> FALSE, inherit_workspace_deps |-> FALSE, is_root |-> FALSE,
     buckconfig |-> DepsConfig, file |-> RootBuck, ignore_tests |-> FALSE,
     checksums_map |-> ChecksumsMap]

\* the entries a change set is made of
ChangeEntries ==
    {<<SerdeId, "Added">>, <<SerdeId, "Changed">>, <<SysId, "Added">>,
     <<BothId, "Changed">>, <<RootId, "Changed">>, <<GhostId, "Added">>,
     <<ToolId, "Added">>, <<MetaId, "Added">>,
     <<SerdeOldId, "Removed">>, <<UtilId, "Removed">>, <<RootId, "Removed">>,
     <<ZlibId, "Removed">>, <<MetaId, "Removed">>, <<BadId, "Removed">>,
     <<SerdeGitId, "Removed">>}

\* self.changes: a change type for each of at most MaxChanges identifiers
ChangeSets ==
    {[id \in {e[1] : e \in es} |-> (CHOOSE e \in es : e[1] = id)[2]] :
        es \in {x \in SUBSET ChangeEntries :
                    /\ Cardinality(x) <= MaxChanges
                    /\ \A e1, e2 \in x : e1[1] = e2[1] => e1 = e2}}

\* utils.rs get_vendor_dir, as path components
GetVendorDir(name, version) ==
    PathJoin(Buck2Root, RustCratesRoot \o "/" \o name \o "/" \o version)

\* Path::parent
Parent(p) == SubSeq(p, 1, Len(p) - 1)

\* the elements of a sequence
Range(q) == {q[i] : i \in DOMAIN q}

\* the file system with one file written
PutFile(fs, p, content) == [x \in DOMAIN fs \cup {p} |-> IF x = p THEN content ELSE fs[x]]

\* the files that are not below a directory
FilesOutside(fs, d) == [x \in {y \in DOMAIN fs : ~IsPrefixSeq(d, y)} |-> fs[x]]

\* the directories that are neither a directory nor below it
DirsOutside(ds, d) == {x \in ds : ~IsPrefixSeq(d, x)}

\* read_dir().next().is_none()
IsEmptyDir(ds, fs, d) == \A x \in ds \cup DOMAIN fs : Parent(x) # d

\* a vendor tree with nothing vendored
FreshDirs == {}
FreshFiles == [x \in {} |-> ""]

\* a vendor tree with two versions of serde, a registry package with the name
\* and version of the first-party package util, libz-sys, and meta (whose
\* version carries build metadata) beside a file of its package directory, each
\* under the directory vendor_package makes for it; every rule file has prior
\* content
VendoredDirs ==
    {Parent(GetVendorDir("serde", "1.0.100")), GetVendorDir("serde", "1.0.100"),
     GetVendorDir("serde", "1.0.200"),
     Parent(GetVendorDir("util", "0.1.0")), GetVendorDir("util", "0.1.0"),
     Parent(GetVendorDir("libz-sys", "1.1.0")), GetVendorDir("libz-sys", "1.1.0"),
     Parent(GetVendorDir("meta", "1.0.0+build.1")), GetVendorDir("meta", "1.0.0+build.1")}

VendoredFiles ==
    [x \in {GetVendorDir("serde", "1.0.100") \o <<"BUCK">>,
            GetVendorDir("serde", "1.0.200") \o <<"BUCK">>,
            GetVendorDir("util", "0.1.0") \o <<"BUCK">>,
            GetVendorDir("libz-sys", "1.1.0") \o <<"BUCK">>,
            GetVendorDir("meta", "1.0.0+build.1") \o <<"BUCK">>,
            Parent(GetVendorDir("meta", "1.0.0+build.1")) \o <<"NOTES">>,
            Components("/ws/crates/both/BUCK")} |-> "old"]

\* the run flags: --separate, --no-merge, repo_config.patch_fields
ApplyContexts ==
    {[separate |-> sep, no_merge |-> nm, patch_fields |-> pf] :
        sep \in BOOLEAN,
        nm \in BOOLEAN,
        pf \in {{}, {"visibility"}}}

\* the offset of the first '+' or '#' of a string, -1 if it has none
FindPlusOrHash(r) ==
    MinOffset({i \in 0..(Len(r) - 1) : SubSeq(r, i + 1, i + 1) \in {"+", "#"}})

\* the fourth group of the identifier pattern and what may follow it:
\* ([^+#]+)(?:\+(.+))?$ on r, given the offset q of its first '+' or '#'
VersionGroup(r, q) ==
    IF q < 0 THEN [ok |-> r # "", version |-> r]
    ELSE [ok |-> q >= 1 /\ SubSeq(r, q + 1, q + 1) = "+" /\ Len(r) > q + 1,
          version |-> StrTo(r, q)]

\* the third and fourth groups: ([^@]+)@ on r, then the version
NameGroup(r, at) ==
    IF at < 1 THEN [ok |-> FALSE, name |-> "", version |-> ""]
    ELSE [ok |-> VersionGroup(StrFrom(r, at + 1), FindPlusOrHash(StrFrom(r, at + 1))).ok,
          name |-> StrTo(r, at),
          version |-> VersionGroup(StrFrom(r, at + 1),
                                   FindPlusOrHash(StrFrom(r, at + 1))).version]

\* the second group: ([^#]+)# on r, then the name and the version
LocatorGroup(r, hash) ==
    IF hash < 1 THEN [ok |-> FALSE, name |-> "", version |-> ""]
    ELSE NameGroup(StrFrom(r, hash + 1), Find(StrFrom(r, hash + 1), "@"))

\* the first group: ([^+#]+)\+ on the identifier, then the rest
KindGroup(repr, q) ==
    IF q < 1 \/ SubSeq(repr, q + 1, q + 1) # "+"
    THEN [ok |-> FALSE, name |-> "", version |-> ""]
    ELSE LocatorGroup(StrFrom(repr, q + 1), Find(StrFrom(repr, q + 1), "#"))

\* re.captures(&id.repr) for ^([^+#]+)\+([^#]+)#([^@]+)@([^+#]+)(?:\+(.+))?$ :
\* whether the identifier matches, and groups 3 and 4
Captures(repr) == KindGroup(repr, FindPlusOrHash(repr))

\* a test of the removal that skips nothing
SkipRemovedNever(id) == FALSE

\* the test of a Removed entry against the workspace root's pattern
SkipRemoved(id) == StartsWith(id, SkipPattern)

\* the directory the rule file of a package goes to
VendorDirOf(package) ==
    IF package.source = "" THEN Components(package.manifest_dir)
    ELSE GetVendorDir(package.name, package.version)

\* vendor_package: the directories after create_dir_all, which may fail
\* before or after the package directory is made
VendorOutcomes(package) ==
    IF package.source = "" \/ VendorDirOf(package) \in dirs
    THEN {[ok |-> TRUE, dirs |-> dirs]}
    ELSE {[ok |-> TRUE, dirs |-> dirs \cup {Parent(VendorDirOf(package)), VendorDirOf(package)}],
          [ok |-> FALSE, dirs |-> dirs],
          [ok |-> FALSE, dirs |-> dirs \cup {Parent(VendorDirOf(package))}]}

\* a merge test that ignores the --no-merge flag
MergingDespiteNoMerge(buck_path) ==
    buck_path \in DOMAIN files /\ actx.patch_fields # {}

\* whether the existing rule file is parsed and its fields patched into the
\* new rules
Merging(buck_path) ==
    buck_path \in DOMAIN files /\ ~actx.no_merge /\ actx.patch_fields # {}

\* the rule file after the patch and write part of an Added or Changed
\* entry, and the calls made, for that file absent or present:
\* parse_buck_file may fail; File::create may fail or leaves an empty file;
\* gen_buck_content may panic; fs::write may fail before it truncates the
\* file, after it, or after a part of the content is written
WriteOutcomes(buck_path) ==
    LET exists == buck_path \in DOMAIN files
        merge == Merging(buck_path)
        created == IF exists THEN files ELSE PutFile(files, buck_path, "empty")
        pre == (IF merge THEN <<"parse_buck_file", "patch_buck_rules">> ELSE <<>>)
               \o (IF exists THEN <<>> ELSE <<"File::create">>)
    IN  (IF merge
         THEN {[apc |-> "panic", files |-> files, calls |-> <<"parse_buck_file">>]}
         ELSE {})
        \cup (IF ~exists
              THEN {[apc |-> "panic", files |-> files, calls |-> <<"File::create">>]}
              ELSE {})
        \cup {[apc |-> "panic", files |-> created, calls |-> pre \o <<"gen_buck_content">>]}
        \cup {[apc |-> o.apc, files |-> o.files,
               calls |-> pre \o <<"gen_buck_content", "fs::write">>] :
                 o \in {[apc |-> "panic", files |-> created],
                        [apc |-> "panic", files |-> PutFile(files, buck_path, "empty")],
                        [apc |-> "panic", files |-> PutFile(files, buck_path, "partial")],
                        [apc |-> "loop",
                         files |-> PutFile(files, buck_path,
                                           IF merge THEN "merged" ELSE "new")]}}

\* a removal of the package directory that does not look whether it is empty
ParentOutcomesUnconditional(ds, fs, package_dir) ==
    IF package_dir \in ds
    THEN {[apc |-> "loop", dirs |-> DirsOutside(ds, package_dir),
           files |-> FilesOutside(fs, package_dir)],
          [apc |-> "panic", dirs |-> ds, files |-> fs]}
    ELSE {[apc |-> "loop", dirs |-> ds, files |-> fs]}

\* the tree after the removal of the package directory, if it is empty:
\* remove_dir_all may fail
ParentOutcomes(ds, fs, package_dir) ==
    IF package_dir \in ds /\ IsEmptyDir(ds, fs, package_dir)
    THEN {[apc |-> "loop", dirs |-> ds \ {package_dir}, files |-> fs],
          [apc |-> "panic", dirs |-> ds, files |-> fs]}
    ELSE {[apc |-> "loop", dirs |-> ds, files |-> fs]}

\* the tree after the removal part of a Removed entry: remove_dir_all of the
\* version directory may fail with nothing or with the files removed
RemoveOutcomes(vendor_dir) ==
    IF vendor_dir \in dirs
    THEN ParentOutcomes(DirsOutside(dirs, vendor_dir), FilesOutside(files, vendor_dir),
                        Parent(vendor_dir))
         \cup {[apc |-> "panic", dirs |-> dirs, files |-> files],
               [apc |-> "panic", dirs |-> dirs, files |-> FilesOutside(files, vendor_dir)]}
    ELSE ParentOutcomes(dirs, files, Parent(vendor_dir))

InitApply ==
    /\ changes \in ChangeSets
    /\ applied = <<>>
    /\ \/ dirs = FreshDirs /\ files = FreshFiles
       \/ dirs = VendoredDirs /\ files = VendoredFiles
    /\ actx \in ApplyContexts
    /\ apc = "loop"
    /\ calls = <<>>

\* a test of an Added or Changed entry that ignores the separate flag
SkipAddedNotSeparate(id) ==
    \/ id = RootId
    \/ id \notin DOMAIN NodesMap

\* the tests that make apply pass over an Added or Changed entry: the root
\* package, an identifier with no node, a first-party package under --separate
SkipAdded(id) ==
    \/ id = RootId
    \/ id \notin DOMAIN NodesMap
    \/ actx.separate /\ ApplyPackages[id].source = ""

\* the iteration of apply over an Added or Changed entry, up to the call of
\* buckify_root_node or buckify_dep_node
ApplyAdded ==
    /\ apc = "loop"
    /\ \E id \in DOMAIN changes \ Range(applied) :
          /\ changes[id] \in {"Added", "Changed"}
          /\ applied' = Append(applied, id)
          /\ IF SkipAdded(id)
             THEN UNCHANGED <<dirs, apc, ruleVars>>
             ELSE \E v \in VendorOutcomes(ApplyPackages[id]) :
                    /\ dirs' = v.dirs
                    /\ IF v.ok
                       THEN /\ apc' = "buckify"
                            /\ job' = [package |-> ApplyPackages[id], node |-> NodesMap[id],
                                       ctx |-> ApplyRuleContext]
                            /\ buck_rules' = <<>>
                            /\ bpc' = "start"
                            /\ bi' = 0
                       ELSE apc' = "panic" /\ UNCHANGED ruleVars
    /\ UNCHANGED <<aliasVars, configVars, changes, files, actx, calls, cfg, cellVars, labelVars, depVars>>

\* the rest of that iteration, once the rules are generated: the patch of
\* the rules and the write of the rule file
ApplyWrite ==
    /\ apc = "buckify"
    /\ bpc = "done"
    /\ \E o \in WriteOutcomes(VendorDirOf(job.package) \o <<"BUCK">>) :
          files' = o.files /\ apc' = o.apc /\ calls' = o.calls
    /\ job' = <<>> /\ buck_rules' = <<>> /\ bpc' = "idle" /\ bi' = 0
    /\ UNCHANGED <<aliasVars, configVars, changes, applied, dirs, actx, cfg, cellVars, labelVars, depVars>>

\* the tree and the call after the removal for the captures caps
Removed(caps) ==
    IF ~caps.ok THEN apc' = "panic" /\ UNCHANGED <<dirs, files>>
    ELSE \E o \in RemoveOutcomes(GetVendorDir(caps.name, caps.version)) :
            dirs' = o.dirs /\ files' = o.files /\ apc' = o.apc

\* the iteration of apply over a Removed entry
ApplyRemoved ==
    /\ apc = "loop"
    /\ \E id \in DOMAIN changes \ Range(applied) :
          /\ changes[id] = "Removed"
          /\ applied' = Append(applied, id)
          /\ IF SkipRemoved(id) THEN UNCHANGED <<dirs, files, apc>>
             ELSE Removed(Captures(id))
    /\ UNCHANGED <<aliasVars, configVars, changes, actx, calls, cfg, cellVars, labelVars, depVars, ruleVars>>

\* the end of the change set: apply returns
ApplyReturn ==
    /\ apc = "loop"
    /\ DOMAIN changes = Range(applied)
    /\ apc' = "done"
    /\ UNCHANGED <<aliasVars, configVars, changes, applied, dirs, files, actx, calls, cfg, cellVars, labelVars,
                   depVars, ruleVars>>

NextApply == ApplyAdded \/ ApplyWrite \/ ApplyRemoved \/ ApplyReturn \/ NextRules

(***************************************************************************)
(* Workspace dependency inheritance: the shared third-party aliases        *)
(***************************************************************************)
\* ctx.packages_map of the flush_root runs: the workspace root, a workspace
\* member, two versions of serde and openssl-sys
AliasPackages ==
    RootId :> ApplyPackages[RootId]
    @@ UtilId :> PackagesMap[UtilId]
    @@ SerdeId :> PackagesMap[SerdeId]
    @@ SysId :> PackagesMap[SysId]
    @@ SerdeOldId :> Pkg("serde", "1.0.100", Registry,
                         "/home/u/.cargo/registry/src/serde-1.0.100",
                         <<Unit({"lib"}, "serde", TRUE,
                                "/home/u/.cargo/registry/src/serde-1.0.100/src/lib.rs")>>, "")

\* a Normal edge of a node of the flush_root runs, renamed or not
AliasEdge(id, renamed) ==
    [pkg |-> id,
     name |-> IF renamed THEN "renamed" ELSE Normalize(AliasPackages[id].name),
     dep_kinds |-> {[kind |-> "normal", target |-> "none"]}]

\* node.deps of at most MaxEdges of the edges of a set; a node has no two
\* edges of one name
AliasNodes(edges) ==
    {q \in UNION {SeqsOver(edges, n) : n \in 0..MaxEdges} :
        \A i, j \in DOMAIN q : i # j => q[i].name # q[j].name}

\* ctx.nodes_map for the first-party packages: the edges of the root and of
\* the member
AliasGraphs ==
    {RootId :> NodeOf(r, {}) @@ UtilId :> NodeOf(m, {}) :
        r \in AliasNodes({AliasEdge(SerdeOldId, FALSE), AliasEdge(SerdeOldId, TRUE),
                          AliasEdge(SerdeId, FALSE), AliasEdge(SysId, FALSE),
                          AliasEdge(UtilId, FALSE)}),
        m \in AliasNodes({AliasEdge(SerdeOldId, FALSE), AliasEdge(SerdeId, FALSE),
                          AliasEdge(SysId, FALSE)})}

\* the value of a decimal digit
DigitValue ==
    "0" :> 0 @@ "1" :> 1 @@ "2" :> 2 @@ "3" :> 3 @@ "4" :> 4
    @@ "5" :> 5 @@ "6" :> 6 @@ "7" :> 7 @@ "8" :> 8 @@ "9" :> 9

\* the number a string of decimal digits denotes
RECURSIVE ParseNat(_)
ParseNat(s) ==
    IF s = "" THEN 0
    ELSE 10 * ParseNat(StrTo(s, Len(s) - 1)) + DigitValue[SubSeq(s, Len(s), Len(s))]

\* major, minor and patch of a version with no pre-release and no build part
VersionTriple(v) ==
    [i \in 1..3 |-> ParseNat(SplitOn(v, ".")[i])]

\* semver::Version::cmp = Less, on versions with no pre-release and no build
\* part
VersionLess(a, b) ==
    \E i \in 1..3 :
        /\ VersionTriple(a)[i] < VersionTriple(b)[i]
        /\ \A j \in 1..(i - 1) : VersionTriple(a)[j] = VersionTriple(b)[j]

\* versions.sort_by(version) then last(): the last recorded of the packages
\* of the greatest version
Latest(versions) ==
    versions[CHOOSE i \in DOMAIN versions :
                /\ \A j \in DOMAIN versions :
                      ~VersionLess(AliasPackages[versions[i]].version,
                                   AliasPackages[versions[j]].version)
                /\ \A j \in DOMAIN versions :
                      j > i => VersionLess(AliasPackages[versions[j]].version,
                                           AliasPackages[versions[i]].version)]

\* grouped.entry(name).or_default().push(dep_pkg)
GroupPush(g, name, id) ==
    [n \in DOMAIN g \cup {name} |->
        IF n = name THEN (IF n \in DOMAIN g THEN g[n] ELSE <<>>) \o <<id>> ELSE g[n]]

\* the loop over node.deps of one first-party package: every edge on a
\* third-party package is recorded under the package's name; an edge on a
\* package that packages_map does not hold panics
RECURSIVE GroupDeps(_, _)
GroupDeps(g, edges) ==
    IF edges = <<>> THEN [ok |-> TRUE, grouped |-> g]
    ELSE IF Head(edges).pkg \notin DOMAIN AliasPackages THEN [ok |-> FALSE, grouped |-> g]
    ELSE GroupDeps(IF AliasPackages[Head(edges).pkg].source # ""
                   THEN GroupPush(g, AliasPackages[Head(edges).pkg].name, Head(edges).pkg)
                   ELSE g,
                   Tail(edges))

\* the alias rule of one crate name: its actual target is the versioned rule
\* of the latest recorded version
AliasActual(crate_name, latest, c, order) ==
    RewriteTargetIfNeeded(
        "//third-party/rust/crates/" \o crate_name \o "/" \o AliasPackages[latest].version
            \o ":" \o crate_name,
        c, order)

\* the body of the loop of set_deps for one edge, over a given packages_map
SetDepsEdgeIn(packages_map, acc, dep, k, c, order) ==
    IF acc.status # "running" \/ dep.pkg \notin DOMAIN packages_map \/ ~EdgeSelected(dep, k)
    THEN acc
    ELSE IF packages_map[dep.pkg].source = ""
    THEN FirstPartyDep(acc, dep, packages_map[dep.pkg], c, order)
    ELSE ThirdPartyDep(acc, dep, packages_map[dep.pkg], c, order)

\* set_deps over a whole edge list and a given packages_map
RECURSIVE SetDepsIn(_, _, _, _, _, _)
SetDepsIn(packages_map, acc, edges, k, c, order) ==
    IF edges = <<>> THEN acc
    ELSE CHOOSE r \in {SetDepsIn(packages_map, a, Tail(edges), k, c, order) :
                          a \in {SetDepsEdgeIn(packages_map, acc, Head(edges), k, c, order)}} :
            TRUE

\* the run contexts of flush_root: the consuming package is the workspace
\* root, and the BUCK file is the one of the current directory
AliasContexts ==
    {[align_cells |-> a, inherit_workspace_deps |-> i, is_root |-> TRUE,
      buckconfig |-> DepsConfig, file |-> RootBuck] : a \in BOOLEAN, i \in BOOLEAN}

InitAlias ==
    /\ anodes \in AliasGraphs
    /\ fctx \in AliasContexts
    /\ grouped = EmptyMap
    /\ seen = {}
    /\ alias_rules = EmptyMap
    /\ root_deps = {}
    /\ root_named = EmptyMap
    /\ fpc = "start"

\* flush_root up to the loop of generate_third_party_aliases, which it calls
\* when inheritance is enabled: create_dir_all may fail
AliasBegin ==
    /\ fpc = "start"
    /\ fpc' \in (IF fctx.inherit_workspace_deps THEN {"group", "panic"} ELSE {"root"})
    /\ UNCHANGED <<anodes, fctx, grouped, seen, alias_rules, root_deps, root_named>>
    /\ UNCHANGED <<cfg, cellVars, labelVars, depVars, ruleVars, applyVars, configVars>>

\* one iteration of the loop over ctx.packages_map, in the order the map
\* yields its entries
AliasGroup ==
    /\ fpc = "group"
    /\ \E id \in DOMAIN AliasPackages \ seen :
          /\ seen' = seen \cup {id}
          /\ IF AliasPackages[id].source # "" \/ id \notin DOMAIN anodes
             THEN UNCHANGED <<grouped, fpc>>
             ELSE \E r \in {GroupDeps(grouped, anodes[id].deps)} :
                    /\ grouped' = r.grouped
                    /\ fpc' = IF r.ok THEN "group" ELSE "panic"
    /\ UNCHANGED <<anodes, fctx, alias_rules, root_deps, root_named>>
    /\ UNCHANGED <<cfg, cellVars, labelVars, depVars, ruleVars, applyVars, configVars>>

\* the rest of generate_third_party_aliases: the file is created and one
\* alias rule is written for every recorded crate name; File::create, a write
\* or the flush may fail
AliasWrite ==
    /\ fpc = "group"
    /\ seen = DOMAIN AliasPackages
    /\ \E order \in RewriteOrders(fctx) :
          \/ /\ alias_rules' = [n \in DOMAIN grouped |->
                                   AliasActual(n, Latest(grouped[n]), fctx, order)]
             /\ fpc' = "root"
          \/ /\ alias_rules' = alias_rules
             /\ fpc' = "panic"
    /\ UNCHANGED <<anodes, fctx, grouped, seen, root_deps, root_named>>
    /\ UNCHANGED <<cfg, cellVars, labelVars, depVars, ruleVars, applyVars, configVars>>

\* the rest of flush_root: buckify_root_node for the root package, whose
\* binary rule gets its references from set_deps, and the write of the BUCK
\* file, which may fail
AliasRoot ==
    /\ fpc = "root"
    /\ \E order \in RewriteOrders(fctx) :
          \E acc \in {SetDepsIn(AliasPackages, DepAcc({}, EmptyMap, "running"),
                                anodes[RootId].deps, "Bin", fctx, order)} :
              /\ root_deps' = acc.deps
              /\ root_named' = acc.named_deps
              /\ fpc' \in (IF acc.status = "exit" THEN {"exit"} ELSE {"done", "panic"})
    /\ UNCHANGED <<anodes, fctx, grouped, seen, alias_rules>>
    /\ UNCHANGED <<cfg, cellVars, labelVars, depVars, ruleVars, applyVars, configVars>>

NextAlias == AliasBegin \/ AliasGroup \/ AliasWrite \/ AliasRoot

(***************************************************************************)
(* Cell configuration parser: BuckConfig                                   *)
(***************************************************************************)
\* the number of section calls made on a loaded configuration
MaxOps == 2

\* str::trim_start and str::trim_end, for spaces and tabs
RECURSIVE TrimStart(_)
TrimStart(s) ==
    IF s # "" /\ SubSeq(s, 1, 1) \in {" ", "\t"} THEN TrimStart(StrFrom(s, 1)) ELSE s

RECURSIVE TrimEnd(_)
TrimEnd(s) ==
    IF s # "" /\ SubSeq(s, Len(s), Len(s)) \in {" ", "\t"}
    THEN TrimEnd(StrTo(s, Len(s) - 1)) ELSE s

\* str::trim
Trim(s) == TrimEnd(TrimStart(s))

\* a line of str::lines without the "\r" that may end it
WithoutCr(piece) == IF EndsWith(piece, "\r") THEN StrTo(piece, Len(piece) - 1) ELSE piece

\* str::lines on the pieces between the "\n": a last empty piece is no line
LinesOf(pieces) ==
    [i \in 1..(IF pieces[Len(pieces)] = "" THEN Len(pieces) - 1 ELSE Len(pieces)) |->
        WithoutCr(pieces[i])]

\* str::lines
StrLines(contents) == LinesOf(SplitOn(contents, "\n"))

\* BuckConfig: section_order, and sections as a map from names to lines
BuckConfig(order, sections) == [section_order |-> order, sections |-> sections]

\* BuckConfig::default
DefaultConfig == BuckConfig(<<>>, [x \in {} |-> <<>>])

\* sections.entry(section).or_default().push(line)
EntryPush(sections, section, line) ==
    [s \in DOMAIN sections \cup {section} |->
        IF s = section
        THEN (IF s \in DOMAIN sections THEN sections[s] ELSE <<>>) \o <<line>>
        ELSE sections[s]]

\* the body of the loop of parse for one line, given its trimmed form: st is
\* the configuration and current_section, "" with some = FALSE for None
ParseLine(st, line, trimmed) ==
    IF StartsWith(trimmed, "[") /\ EndsWith(trimmed, "]")
    THEN [config |-> BuckConfig(Append(st.config.section_order,
                                       SubSeq(trimmed, 2, Len(trimmed) - 1)),
                                st.config.sections),
          some |-> TRUE,
          current_section |-> SubSeq(trimmed, 2, Len(trimmed) - 1)]
    ELSE IF StartsWith(trimmed, "#") THEN st
    ELSE IF line # "" /\ st.some
    THEN [st EXCEPT !.config =
             BuckConfig(@.section_order, EntryPush(@.sections, st.current_section, line))]
    ELSE st

\* the loop of parse over the lines
RECURSIVE ParseLines(_, _)
ParseLines(st, lines) ==
    IF lines = <<>> THEN st
    ELSE ParseLines(CHOOSE r \in {ParseLine(st, Head(lines), t) : t \in {Trim(Head(lines))}} :
                        TRUE,
                    Tail(lines))

\* BuckConfig::parse
Parse(contents) ==
    ParseLines([config |-> DefaultConfig, some |-> FALSE, current_section |-> ""],
               StrLines(contents)).config

\* the lines of a section followed by the blank line, as serialize writes
\* them
RECURSIVE SerializeLines(_)
SerializeLines(lines) ==
    IF lines = <<>> THEN "\n"
    ELSE Head(lines) \o "\n" \o SerializeLines(Tail(lines))

\* the loop of serialize over section_order
RECURSIVE SerializeSections(_, _)
SerializeSections(order, sections) ==
    IF order = <<>> THEN ""
    ELSE "[" \o Head(order) \o "]\n"
         \o (IF Head(order) \in DOMAIN sections THEN SerializeLines(sections[Head(order)])
             ELSE "")
         \o SerializeSections(Tail(order), sections)

\* String::pop
Pop(output) == IF output = "" THEN "" ELSE StrTo(output, Len(output) - 1)

\* BuckConfig::serialize
Serialize(config) == Pop(SerializeSections(config.section_order, config.sections))

\* BuckConfig::get_section_mut
GetSectionMut(config, section) ==
    BuckConfig(config.section_order,
               [s \in DOMAIN config.sections \cup {section} |->
                   IF s \in DOMAIN config.sections THEN config.sections[s] ELSE <<>>])

\* Vec::insert(pos + 1, x)
InsertAfter(q, pos, x) == SubSeq(q, 1, pos) \o <<x>> \o SubSeq(q, pos + 1, Len(q))

\* the positions of a section name in section_order
Positions(order, name) == {i \in DOMAIN order : order[i] = name}

\* BuckConfig::new_section_after
NewSectionAfter(config, after_section, new_section_name) ==
    BuckConfig(
        IF Positions(config.section_order, after_section) # {}
        THEN InsertAfter(config.section_order,
                         CHOOSE i \in Positions(config.section_order, after_section) :
                            \A j \in Positions(config.section_order, after_section) : i <= j,
                         new_section_name)
        ELSE Append(config.section_order, new_section_name),
        [s \in DOMAIN config.sections \cup {new_section_name} |->
            IF s = new_section_name THEN <<>> ELSE config.sections[s]])

\* BuckConfig::new_section
NewSection(config, new_section_name) ==
    BuckConfig(Append(config.section_order, new_section_name),
               [s \in DOMAIN config.sections \cup {new_section_name} |->
                   IF s = new_section_name THEN <<>> ELSE config.sections[s]])

\* Vec::push on the lines of a section a call returned
Push(config, section, line) ==
    BuckConfig(config.section_order,
               [config.sections EXCEPT ![section] = Append(@, line)])

\* Vec::clear on the lines of a section a call returned
Clear(config, section) ==
    BuckConfig(config.section_order, [config.sections EXCEPT ![section] = <<>>])

\* crate::BUCKAL_BUNDLES_REPO and crate::DEFAULT_BUNDLE_HASH (main.rs), and a
\* hash that fetch() returns
BuckalBundlesRepo == "buck2hub/buckal-bundles"
DefaultBundleHash == "0000000"
FetchedHash == "abc1234"

\* the two lines of the [external_cell_buckal] section, for a commit hash
OriginLine == "  git_origin = https://github.com/" \o BuckalBundlesRepo
HashLine(commit_hash) == "  commit_hash = " \o commit_hash

\* init_buckal_cell between load and save
InitBuckalCell(config, commit_hash) ==
    Push(NewSection(
            Push(Push(NewSectionAfter(
                        Push(GetSectionMut(
                                Push(GetSectionMut(config, "cells"),
                                     "cells", "  buckal = buckal"),
                                "external_cells"),
                             "external_cells", "  buckal = git"),
                        "external_cells", "external_cell_buckal"),
                      "external_cell_buckal", OriginLine),
                 "external_cell_buckal", HashLine(commit_hash)),
            "project"),
         "project", "  ignore = .git .buckal buck-out target")

\* fetch_buckal_cell between load and save
FetchBuckalCell(config, commit_hash) ==
    Push(Push(Clear(GetSectionMut(config, "external_cell_buckal"), "external_cell_buckal"),
              "external_cell_buckal", OriginLine),
         "external_cell_buckal", HashLine(commit_hash))

\* .buckconfig as buck2 init leaves it
FreshText ==
    "[cells]\n  root = .\n  prelude = prelude\n\n[external_cells]\n  prelude = bundled\n"

\* .buckconfig after init_buckal_cell, with a comment
InitedText ==
    "# cells\n[cells]\n  root = .\n  buckal = buckal\n\n[external_cells]\n  buckal = git\n\n"
        \o "[external_cell_buckal]\n  git_origin = old\n  commit_hash = 1111111\n\n"
        \o "[project]\n  ignore = .git\n"

\* the contents of .buckconfig: empty, the two above, one with the [cells]
\* section alone, one that repeats the [cells] header, one with a section of
\* no lines, a blank line of spaces and no final newline, and one with a line
\* before the first section
Texts ==
    {"", FreshText, InitedText,
     "[cells]\n  root = .\n",
     "[cells]\n  root = .\n[project]\n  ignore = .git\n[cells]\n  tp = third-party\n",
     "[cells]\n[project]\n   \n  ignore = .git",
     "x = 1\n[cells]\n  root = .\n"}

\* the section names and the line of the section calls
SectionNames == {"cells", "external_cells", "project"}
NewLine == "  k = v"

InitConfig ==
    /\ disk \in Texts
    /\ bc = DefaultConfig
    /\ saved = DefaultConfig
    /\ kops = <<>>
    /\ kpc = "start"

\* BuckConfig::load: read_to_string may fail
ConfigLoad ==
    /\ kpc = "start"
    /\ \/ bc' = Parse(disk) /\ kpc' = "loaded"
       \/ bc' = bc /\ kpc' = "err"
    /\ UNCHANGED <<disk, saved, kops>>
    /\ UNCHANGED <<cfg, cellVars, labelVars, depVars, ruleVars, applyVars, aliasVars>>

\* get_section_mut on a loaded configuration, and a push on the lines it
\* returns
ConfigGetSectionMut ==
    /\ kpc = "loaded"
    /\ Len(kops) < MaxOps
    /\ \E section \in SectionNames :
          bc' = Push(GetSectionMut(bc, section), section, NewLine)
    /\ kops' = Append(kops, "get_section_mut")
    /\ UNCHANGED <<disk, saved, kpc>>
    /\ UNCHANGED <<cfg, cellVars, labelVars, depVars, ruleVars, applyVars, aliasVars>>

\* new_section on a loaded configuration, and a push on the lines it returns
ConfigNewSection ==
    /\ kpc = "loaded"
    /\ Len(kops) < MaxOps
    /\ \E name \in SectionNames : bc' = Push(NewSection(bc, name), name, NewLine)
    /\ kops' = Append(kops, "new_section")
    /\ UNCHANGED <<disk, saved, kpc>>
    /\ UNCHANGED <<cfg, cellVars, labelVars, depVars, ruleVars, applyVars, aliasVars>>

\* new_section_after on a loaded configuration, and a push on the lines it
\* returns
ConfigNewSectionAfter ==
    /\ kpc = "loaded"
    /\ Len(kops) < MaxOps
    /\ \E after \in SectionNames, name \in SectionNames :
          bc' = Push(NewSectionAfter(bc, after, name), name, NewLine)
    /\ kops' = Append(kops, "new_section_after")
    /\ UNCHANGED <<disk, saved, kpc>>
    /\ UNCHANGED <<cfg, cellVars, labelVars, depVars, ruleVars, applyVars, aliasVars>>

\* BuckConfig::save: fs::write may fail, before or after it truncates the file
ConfigSave ==
    /\ kpc = "loaded"
    /\ \/ disk' = Serialize(bc) /\ saved' = bc /\ kpc' = "saved"
       \/ disk' \in {disk, ""} /\ saved' = saved /\ kpc' = "err"
    /\ UNCHANGED <<bc, kops>>
    /\ UNCHANGED <<cfg, cellVars, labelVars, depVars, ruleVars, applyVars, aliasVars>>

\* the outcome of a function that loads .buckconfig, changes it and saves it
LoadedChangedSaved(config, name) ==
    \/ kpc' = "err" /\ UNCHANGED <<disk, bc, saved, kops>>
    \/ kpc' = "err" /\ disk' \in {disk, ""} /\ bc' = config /\ kops' = <<name>>
          /\ saved' = saved
    \/ kpc' = "saved" /\ disk' = Serialize(config) /\ bc' = config /\ saved' = config
          /\ kops' = <<name>>

\* init_buckal_cell; fetch() returns a hash or fails and the default is taken
ConfigInitBuckalCell ==
    /\ kpc = "start"
    /\ \E commit_hash \in {FetchedHash, DefaultBundleHash} :
          LoadedChangedSaved(InitBuckalCell(Parse(disk), commit_hash), "init_buckal_cell")
    /\ UNCHANGED <<cfg, cellVars, labelVars, depVars, ruleVars, applyVars, aliasVars>>

\* fetch_buckal_cell
ConfigFetchBuckalCell ==
    /\ kpc = "start"
    /\ \E commit_hash \in {FetchedHash, DefaultBundleHash} :
          LoadedChangedSaved(FetchBuckalCell(Parse(disk), commit_hash), "fetch_buckal_cell")
    /\ UNCHANGED <<cfg, cellVars, labelVars, depVars, ruleVars, applyVars, aliasVars>>

\* BuckConfig::load of the file that was saved
ConfigReload ==
    /\ kpc = "saved"
    /\ \/ bc' = Parse(disk) /\ kpc' = "reloaded"
       \/ bc' = bc /\ kpc' = "err"
    /\ UNCHANGED <<disk, saved, kops>>
    /\ UNCHANGED <<cfg, cellVars, labelVars, depVars, ruleVars, applyVars, aliasVars>>

NextConfig ==
    \/ ConfigLoad
    \/ ConfigGetSectionMut
    \/ ConfigNewSection
    \/ ConfigNewSectionAfter
    \/ ConfigSave
    \/ ConfigInitBuckalCell
    \/ ConfigFetchBuckalCell
    \/ ConfigReload

(***************************************************************************)
(* Specifications                                                          *)
(***************************************************************************)
CellIdle == path = "" /\ found1 = None /\ found2 = None /\ cpc = "idle"

LabelIdle == target = "" /\ file = <<>> /\ out1 = "" /\ out2 = "" /\ lpc = "idle"

DepsIdle ==
    /\ kind = "" /\ ctx = <<>> /\ node = <<>> /\ nEdges = 0
    /\ deps = {} /\ named_deps = EmptyMap /\ dpc = "idle"

RulesIdle == job = <<>> /\ buck_rules = <<>> /\ bpc = "idle" /\ bi = 0

ApplyIdle ==
    /\ changes = <<>> /\ applied = <<>> /\ dirs = {} /\ files = <<>>
    /\ actx = <<>> /\ apc = "idle" /\ calls = <<>>

AliasIdle ==
    /\ anodes = <<>> /\ fctx = <<>> /\ grouped = EmptyMap /\ seen = {}
    /\ alias_rules = EmptyMap /\ root_deps = {} /\ root_named = EmptyMap /\ fpc = "idle"

ConfigIdle == disk = "" /\ bc = <<>> /\ saved = <<>> /\ kops = <<>> /\ kpc = "idle"

\* the variables of the parts added to the runs of the other parts
OthersIdle == AliasIdle /\ ConfigIdle

CellInit == InitCell /\ LabelIdle /\ DepsIdle /\ RulesIdle /\ ApplyIdle /\ OthersIdle

LabelInit == InitLabel /\ CellIdle /\ DepsIdle /\ RulesIdle /\ ApplyIdle /\ OthersIdle

DepsInit ==
    InitDeps /\ cfg = DepsConfig /\ CellIdle /\ LabelIdle /\ RulesIdle /\ ApplyIdle /\ OthersIdle

RulesInit ==
    InitRules /\ cfg = DepsConfig /\ CellIdle /\ LabelIdle /\ DepsIdle /\ ApplyIdle /\ OthersIdle

ApplyInit ==
    InitApply /\ cfg = DepsConfig /\ CellIdle /\ LabelIdle /\ DepsIdle /\ RulesIdle /\ OthersIdle

AliasInit ==
    /\ InitAlias /\ cfg = DepsConfig /\ CellIdle /\ LabelIdle /\ DepsIdle /\ RulesIdle
    /\ ApplyIdle /\ ConfigIdle

ConfigInit ==
    /\ InitConfig /\ cfg = EmptyMap /\ CellIdle /\ LabelIdle /\ DepsIdle /\ RulesIdle
    /\ ApplyIdle /\ AliasIdle

\* find_cell_for_path, run twice on one path and configuration
SpecCell == CellInit /\ [][NextCell]_vars

\* rewrite_target_with_cell, run on a label and then on its own output
SpecLabel == LabelInit /\ [][NextLabel]_vars

\* set_deps over the edges of a node
SpecDeps == DepsInit /\ [][NextDeps]_vars

\* buckify_root_node and buckify_dep_node on one package
SpecRules == RulesInit /\ [][NextRules]_vars

\* BuckalChange::apply on one change set
SpecApply == ApplyInit /\ [][NextApply]_vars

\* flush_root: generate_third_party_aliases, then the rules of the root
SpecAlias == AliasInit /\ [][NextAlias]_vars

\* a .buckconfig loaded, changed, saved and loaded again
SpecConfig == ConfigInit /\ [][NextConfig]_vars

(***************************************************************************)
(* Claims                                                                  *)
(***************************************************************************)
\* C1: rewriting the output of rewrite_target_with_cell returns it unchanged
C1_Idempotent == lpc = "twice" => out2 = out1

\* C2: in the second end-to-end example the bare label is rewritten, from a
\* file below the project root, to @third_party//rust/crates/foo/1.0:foo, and
\* rewriting that result returns the same string
C2_Example2 ==
    (cfg = Example2Config /\ target = Example2Label /\ ~IsInRoot(file)) =>
        /\ lpc \in {"once", "twice"} => out1 = "@third_party//rust/crates/foo/1.0:foo"
        /\ lpc = "twice" => out2 = out1

\* the cell mappings whose declared path is a prefix of the resolved path
Matching(c, p) ==
    {n \in DOMAIN CellMappings(c) :
        IsPrefixSeq(Components(CellMappings(c)[n]),
                    StripPrefix(PathJoin(Buck2Root, p), Buck2Root).rel)}

\* C3: find_cell_for_path returns a cell whose declared path is a prefix of the
\* path with the greatest number of components among the matching declarations
\* (none only when nothing matches); with root -> "." and sub -> "a/b", a path
\* under a/b resolves to sub
C3_MostSpecific ==
    cpc \in {"once", "twice"} =>
        /\ found1.some <=> Matching(cfg, path) # {}
        /\ found1.some =>
              /\ found1.name \in Matching(cfg, path)
              /\ \A n \in Matching(cfg, path) :
                    Len(Components(CellMappings(cfg)[n]))
                        <= Len(Components(CellMappings(cfg)[found1.name]))
        /\ (cfg = NestedConfig /\ IsPrefixSeq(<<"a", "b">>, Components(path))) =>
              found1 = Some("sub", 2)

\* a path under a/b/c was resolved with the nested configuration
C3_Witness ==
    /\ cpc = "once"
    /\ cfg = NestedConfig
    /\ path = "a/b/c"
    /\ found1.name = "sub"

\* C9: two runs of find_cell_for_path on the same path and configuration
\* return the same name
C9_Deterministic == cpc = "twice" => found1 = found2

\* whether every (kind, platform) pair of an edge has the given kind
OnlyKind(e, dk) == \A x \in e.dep_kinds : x.kind = dk

\* C4: the iteration of set_deps over an edge whose only kind is Development
\* adds nothing to the dependency set of a unit other than Test, and over an
\* edge whose only kind is Build nothing to that of a unit other than
\* CustomBuild
C4_Classifier ==
    [][(nEdges' = nEdges + 1 /\
            \/ OnlyKind(node[nEdges'], "dev") /\ kind # "Test"
            \/ OnlyKind(node[nEdges'], "build") /\ kind # "CustomBuild")
        => (deps' = deps /\ named_deps' = named_deps)]_vars

\* set_deps returned for a library unit whose node has one edge, of kind
\* Development only, on a package of the graph, with a matching platform
C4_Witness ==
    /\ dpc = "done"
    /\ kind = "Lib"
    /\ Len(node) = 1
    /\ node[1].pkg = SerdeId
    /\ node[1].dep_kinds = {[kind |-> "dev", target |-> "none"],
                            [kind |-> "dev", target |-> "match"]}
    /\ deps = {}

\* C6: the iteration of set_deps over a selected edge on a first-party package
\* with no or several library-family units exits the process and adds no
\* reference
C6_FatalLibCount ==
    [][(/\ nEdges' = nEdges + 1
        /\ node[nEdges'].pkg \in DOMAIN PackagesMap
        /\ PackagesMap[node[nEdges'].pkg].source = ""
        /\ Len(GetLibTargets(PackagesMap[node[nEdges'].pkg])) # 1
        /\ \E dk \in node[nEdges'].dep_kinds :
              /\ dk.target # "nomatch"
              /\ \/ dk.kind = "normal" /\ kind # "CustomBuild"
                 \/ dk.kind = "build" /\ kind = "CustomBuild"
                 \/ dk.kind = "dev" /\ kind = "Test")
        => (dpc' = "exit" /\ deps' = deps /\ named_deps' = named_deps)]_vars

\* set_deps exited on an edge on the package with two library-family units
C6_Witness ==
    /\ dpc = "exit"
    /\ node[nEdges].pkg = TwoLibsId
    /\ deps = {}
    /\ named_deps = EmptyMap

\* the positions of the rules of a kind and a name in the returned list
RulesNamed(rule, name) ==
    {i \in DOMAIN buck_rules : buck_rules[i].rule = rule /\ buck_rules[i].name = name}

\* C5: for a first-party package with a Binary unit and a Library unit of the
\* same name foo, buckify_root_node returns the library rule under the name
\* libfoo, no library rule named foo, and a binary rule foo with the
\* dependency :libfoo
C5_Disambiguation ==
    (bpc = "done" /\ job.package.source = "") =>
        \A i, j \in DOMAIN job.package.targets :
            LET b == job.package.targets[i]
                l == job.package.targets[j]
            IN  ("bin" \in b.kind /\ l.kind \cap LibFamily # {} /\ b.name = l.name) =>
                    /\ RulesNamed("rust_library", "lib" \o l.name) # {}
                    /\ RulesNamed("rust_library", l.name) = {}
                    /\ RulesNamed("rust_binary", b.name) # {}
                    /\ \A r \in RulesNamed("rust_binary", b.name) :
                          (":lib" \o b.name) \in buck_rules[r].deps

\* buckify_root_node returned for the package foo with a binary foo and a
\* library foo, and the rule libfoo is in the list
C5_Witness ==
    /\ bpc = "done"
    /\ job.package.name = "foo"
    /\ \E i, j \in DOMAIN job.package.targets :
          /\ job.package.targets[i] = Unit({"bin"}, "foo", FALSE, "/ws/foo/src/main.rs")
          /\ job.package.targets[j] = Unit({"lib"}, "foo", TRUE, "/ws/foo/src/lib.rs")
    /\ RulesNamed("rust_library", "libfoo") # {}
    /\ \E r \in RulesNamed("rust_binary", "foo") : ":libfoo" \in buck_rules[r].deps

\* C8: for the registry package serde 1.0.200 with its checksum in the table,
\* buckify_dep_node, unless set_deps exits the process, returns in this order
\* the vendor-fetch rule serde-vendor with the URL
\* https://static.crates.io/crates/serde/serde-1.0.200.crate and the strip
\* prefix serde-1.0.200, the manifest rule serde-manifest, and the library
\* rule serde with the crate name serde
C8_SerdeExample ==
    (/\ bpc \in {"done", "panic"}
     /\ job.package = PackagesMap[SerdeId]
     /\ "serde-1.0.200" \in DOMAIN job.ctx.checksums_map) =>
        /\ bpc = "done"
        /\ Len(buck_rules) = 3
        /\ buck_rules[1].rule = "http_archive"
        /\ buck_rules[1].name = "serde-vendor"
        /\ buck_rules[1].urls = {"https://static.crates.io/crates/serde/serde-1.0.200.crate"}
        /\ buck_rules[1].strip_prefix = "serde-1.0.200"
        /\ buck_rules[1].sha256 = job.ctx.checksums_map["serde-1.0.200"]
        /\ buck_rules[2].rule = "cargo_manifest"
        /\ buck_rules[2].name = "serde-manifest"
        /\ buck_rules[3].rule = "rust_library"
        /\ buck_rules[3].name = "serde"
        /\ buck_rules[3].crate_name = "serde"

\* buckify_dep_node returned three rules for serde 1.0.200
C8_Witness ==
    /\ bpc = "done"
    /\ job.package = PackagesMap[SerdeId]
    /\ Len(buck_rules) = 3
    /\ buck_rules[1].name = "serde-vendor"

\* the entry whose iteration a step begins
Begun == applied'[Len(applied')]

\* C7: the iteration of apply over a Removed entry whose identifier starts with
\* path+file://<workspace_root> deletes no directory and no file and does not
\* end the run, whatever the change set and the entries handled before it
C7_RootRemovalSkipped ==
    [][(/\ Len(applied') = Len(applied) + 1
        /\ changes[Begun] = "Removed"
        /\ StartsWith(Begun, "path+file:///ws"))
        => (dirs' = dirs /\ files' = files /\ apc' = "loop")]_vars

\* after the removal of another package, the Removed entry of the first-party
\* package util was handled, and the vendored package of its name and version
\* is still there
C7_Witness ==
    /\ apc = "loop"
    /\ applied = <<SerdeOldId, UtilId>>
    /\ changes[UtilId] = "Removed"
    /\ GetVendorDir("serde", "1.0.100") \notin dirs
    /\ GetVendorDir("util", "0.1.0") \in dirs
    /\ (GetVendorDir("util", "0.1.0") \o <<"BUCK">>) \in DOMAIN files

\* C10: no rule file is ever empty or partially written: a rule file keeps
\* its prior content, stays absent, or holds the complete new content
C10_AllOrNothing ==
    \A p \in DOMAIN files : files[p] \notin {"empty", "partial"}

\* C11: the iteration of apply over an Added or Changed entry that is the
\* workspace-root package, or a first-party package when the separate flag is
\* set, creates no directory, creates or writes no file, and generates no rules
C11_AddedSkipped ==
    [][(/\ Len(applied') = Len(applied) + 1
        /\ changes[Begun] \in {"Added", "Changed"}
        /\ \/ Begun = "path+file:///ws#app@0.1.0"
           \/ actx.separate /\ StartsWith(Begun, "path+"))
        => (dirs' = dirs /\ files' = files /\ apc' = "loop" /\ bpc' = "idle")]_vars

\* under the separate flag, after serde was added, the Changed entry of the
\* first-party package both was passed over: no rule file for it exists
C11_Witness ==
    /\ apc = "loop"
    /\ actx.separate
    /\ applied = <<SerdeId, BothId>>
    /\ changes[BothId] = "Changed"
    /\ (GetVendorDir("serde", "1.0.200") \o <<"BUCK">>) \in DOMAIN files
    /\ Components("/ws/crates/both/BUCK") \notin DOMAIN files

\* C12: the iteration of set_deps over the first edge of a node, on a package
\* of the graph, adds a reference or exits the process exactly when one single
\* (kind, platform) pair of the edge has a kind applicable to the unit kind
\* (Normal unless CustomBuild, Build for CustomBuild, Development for Test) and
\* a platform predicate that is absent or matches
C12_ConjunctivePerPair ==
    [][(nEdges = 0 /\ nEdges' = 1 /\ node[1].pkg \in DOMAIN PackagesMap)
        => ((deps' # {} \/ DOMAIN named_deps' # {} \/ dpc' = "exit")
            <=> \E dk \in node[1].dep_kinds :
                    /\ dk.target \in {"none", "match"}
                    /\ \/ dk.kind = "normal" /\ kind # "CustomBuild"
                       \/ dk.kind = "build" /\ kind = "CustomBuild"
                       \/ dk.kind = "dev" /\ kind = "Test")]_vars

\* set_deps returned for a library unit with nothing added, over an edge whose
\* Normal pair does not match the platform and whose Development pair does
C12_Witness ==
    /\ dpc = "done"
    /\ kind = "Lib"
    /\ Len(node) = 1
    /\ node[1].pkg = SerdeId
    /\ node[1].dep_kinds = {[kind |-> "normal", target |-> "nomatch"],
                            [kind |-> "dev", target |-> "match"]}
    /\ deps = {}
    /\ DOMAIN named_deps = {}

\* the rule file the patch-and-write part of apply is about to write
BuckPath ==
    (IF job.package.source = "" THEN Components(job.package.manifest_dir)
     ELSE GetVendorDir(job.package.name, job.package.version)) \o <<"BUCK">>

\* C13: in the patch-and-write part of an Added or Changed entry, the old rule
\* file is parsed (and merged once parsed) exactly when it exists, no_merge is
\* false and a patch field is configured; an empty file is created first
\* exactly when no file existed; and the content written is the merged rules
\* in the first case and the freshly generated rules alone in every other
C13_MergeCondition ==
    [][(apc = "buckify" /\ apc' # "buckify") =>
        LET existed == BuckPath \in DOMAIN files
            merging == existed /\ ~actx.no_merge /\ actx.patch_fields # {}
        IN  /\ (\E i \in DOMAIN calls' : calls'[i] = "parse_buck_file") <=> merging
            /\ (\E i \in DOMAIN calls' : calls'[i] = "patch_buck_rules") => merging
            /\ (\E i \in DOMAIN calls' : calls'[i] = "File::create") <=> ~existed
            /\ apc' = "loop" =>
                  files'[BuckPath] = IF merging THEN "merged" ELSE "new"]_vars

\* a Changed entry of serde was written over the existing rule file with
\* --no-merge and a patch field configured: nothing was parsed or created
C13_Witness ==
    /\ apc = "loop"
    /\ applied = <<SerdeId>>
    /\ actx.no_merge /\ actx.patch_fields # {}
    /\ changes[SerdeId] = "Changed"
    /\ calls = <<"gen_buck_content", "fs::write">>
    /\ files[GetVendorDir("serde", "1.0.200") \o <<"BUCK">>] = "new"
    /\ dirs = VendoredDirs

\* the versioned vendor directory of the Removed entry a step begins
BegunDir == GetVendorDir(Captures(Begun).name, Captures(Begun).version)

\* C14: the iteration of apply over a Removed entry that is not passed over
\* deletes, when it returns, the versioned vendor directory v with everything
\* below it, and the parent package directory if nothing is left in it; it
\* touches nothing else: while an entry other than the versioned directory
\* remains in the package directory (another version, a file), the package
\* directory stays, and every other directory and file keeps its content
C14_RemovalFrame ==
    [][(/\ Len(applied') = Len(applied) + 1
        /\ changes[Begun] = "Removed"
        /\ ~StartsWith(Begun, "path+file:///ws")
        /\ Captures(Begun).ok)
        => \A v \in {BegunDir} :
           /\ apc' = "loop" =>
                /\ \A x \in dirs' \cup DOMAIN files' : ~IsPrefixSeq(v, x)
                /\ Parent(v) \in dirs' =>
                      \E x \in dirs' \cup DOMAIN files' : Parent(x) = Parent(v)
           /\ \A d \in dirs \ dirs' : IsPrefixSeq(v, d) \/ d = Parent(v)
           /\ \A f \in DOMAIN files :
                ~IsPrefixSeq(v, f) => (f \in DOMAIN files' /\ files'[f] = files[f])
           /\ (\E x \in dirs \cup DOMAIN files : Parent(x) = Parent(v) /\ x # v)
                => (Parent(v) \in dirs <=> Parent(v) \in dirs')
           /\ dirs' \subseteq dirs /\ DOMAIN files' \subseteq DOMAIN files]_vars

\* serde 1.0.100 was removed while serde 1.0.200 was vendored: the other
\* version and the package directory are still there
C14_Witness ==
    /\ apc = "loop"
    /\ applied = <<SerdeOldId>>
    /\ changes[SerdeOldId] = "Removed"
    /\ GetVendorDir("serde", "1.0.100") \notin dirs
    /\ GetVendorDir("serde", "1.0.200") \in dirs
    /\ Parent(GetVendorDir("serde", "1.0.200")) \in dirs
    /\ files[GetVendorDir("serde", "1.0.200") \o <<"BUCK">>] = "old"

\* C15: when the iteration of apply over the Removed entry of a third-party
\* package returns, the directory vendor_package makes for that package (from
\* its name and its full version string) is no longer there
C15_RemovalUndoesVendoring ==
    [][(/\ Len(applied') = Len(applied) + 1
        /\ changes[Begun] = "Removed"
        /\ Begun \in DOMAIN ApplyPackages
        /\ ApplyPackages[Begun].source # ""
        /\ apc' = "loop")
        => GetVendorDir(ApplyPackages[Begun].name, ApplyPackages[Begun].version)
              \notin dirs']_vars

\* C16: the name find_cell_for_path returns is a key of the [cells] section,
\* never an alias
C16_CanonicalName ==
    (cpc \in {"once", "twice"} /\ found1.some) => found1.name \in DOMAIN cfg.cells

\* the path part of a label, between "//" and ':'
PathPart(t) ==
    StrTo(StrFrom(t, Find(t, "//") + 2), Find(StrFrom(t, Find(t, "//") + 2), ":"))

\* the canonical name of the cell prefix of a label
CanonicalCell(t) ==
    IF StrTo(t, Find(t, "//")) \in DOMAIN LoadCellAliases(cfg)
    THEN LoadCellAliases(cfg)[StrTo(t, Find(t, "//"))]
    ELSE StrTo(t, Find(t, "//"))

\* C17: the rewrite of a cell-qualified label whose cell's declared path is not
\* a prefix of the label path on whole path components leaves the label path
\* as it was
C17_ComponentPrefix ==
    (/\ lpc \in {"once", "twice"}
     /\ Find(target, "//") >= 1
     /\ Contains(StrFrom(target, Find(target, "//") + 2), ":")
     /\ CanonicalCell(target) \in DOMAIN cfg.cells
     /\ ~IsPrefixSeq(Components(cfg.cells[CanonicalCell(target)]),
                     Components(PathPart(target))))
        => PathPart(out1) = PathPart(target)

\* the references an iteration of set_deps adds, positional or renamed
AddedRefs ==
    (deps' \ deps)
    \cup {named_deps'[n] : n \in DOMAIN named_deps' \ DOMAIN named_deps}

\* C18: the reference the iteration of set_deps over an edge on a first-party
\* package builds is a bare label //<directory>:<rule>: when cells are not
\* aligned, the label is inserted as built and starts with "//"; when they
\* are, the rewriter is handed a label it recognises, so the reference holds
\* "//"
C18_BareLabel ==
    [][(/\ nEdges' = nEdges + 1
        /\ node[nEdges'].pkg \in DOMAIN PackagesMap
        /\ PackagesMap[node[nEdges'].pkg].source = "")
        => \A t \in AddedRefs :
              IF ctx.align_cells THEN Contains(t, "//") ELSE StartsWith(t, "//")]_vars

\* the rule name the naming rule gives the unit at position j of the package:
\* lib<name> for a library-family unit with a Binary unit of its name, else
\* the unit's name
NamedByRule(j) ==
    IF /\ job.package.targets[j].kind \cap LibFamily # {}
       /\ \E b \in DOMAIN job.package.targets :
             /\ "bin" \in job.package.targets[b].kind
             /\ job.package.targets[b].name = job.package.targets[j].name
    THEN "lib" \o job.package.targets[j].name
    ELSE job.package.targets[j].name

\* C19: every library rule buckify_root_node or buckify_dep_node returns is
\* named by the naming rule after a library-family unit of the package, and
\* every binary rule that is not the build script's after a Binary unit
C19_UnitNames ==
    bpc = "done" =>
        \A i \in DOMAIN buck_rules :
            /\ buck_rules[i].rule = "rust_library" =>
                  \E j \in DOMAIN job.package.targets :
                      /\ job.package.targets[j].kind \cap LibFamily # {}
                      /\ buck_rules[i].name = NamedByRule(j)
            /\ (buck_rules[i].rule = "rust_binary" /\ buck_rules[i].visibility # {}) =>
                  \E j \in DOMAIN job.package.targets :
                      /\ "bin" \in job.package.targets[j].kind
                      /\ buck_rules[i].name = NamedByRule(j)

\* the position of the k-th library rule of the returned list
LibraryRuleAt(k) ==
    CHOOSE i \in DOMAIN buck_rules :
        /\ buck_rules[i].rule = "rust_library"
        /\ Cardinality({j \in 1..i : buck_rules[j].rule = "rust_library"}) = k

\* whether the rule after the k-th library rule is the test rule
\* <unit name>-unittest of the k-th library-family unit, compiled from the
\* crate root of the library
CompanionAfter(k) ==
    /\ LibraryRuleAt(k) + 1 \in DOMAIN buck_rules
    /\ buck_rules[LibraryRuleAt(k) + 1].rule = "rust_test"
    /\ buck_rules[LibraryRuleAt(k) + 1].name
          = GetLibTargets(job.package)[k].name \o "-unittest"
    /\ buck_rules[LibraryRuleAt(k) + 1].crate_root = buck_rules[LibraryRuleAt(k)].crate_root

\* C20: for every library-family unit of a first-party package,
\* buckify_root_node returns the test rule <unit name>-unittest right after
\* the library rule exactly when tests are not disabled and the unit declares
\* inline tests
C20_UnitTestCompanion ==
    (bpc = "done" /\ job.package.source = "") =>
        \A k \in DOMAIN GetLibTargets(job.package) :
            CompanionAfter(k)
                <=> (~job.ctx.ignore_tests /\ GetLibTargets(job.package)[k].test)

\* C20 as stated: the companion test rule is returned in every case except
\* when tests are disabled and the unit declares inline tests
C20_AsStated ==
    (bpc = "done" /\ job.package.source = "") =>
        \A k \in DOMAIN GetLibTargets(job.package) :
            CompanionAfter(k)
                <=> ~(job.ctx.ignore_tests /\ GetLibTargets(job.package)[k].test)

\* buckify_root_node returned, with tests enabled, for a package whose only
\* unit is a library without inline tests: the library rule has no companion
C20_Witness ==
    /\ bpc = "done"
    /\ job.package.source = ""
    /\ ~job.ctx.ignore_tests
    /\ job.package.targets = <<Unit({"lib"}, "foo", FALSE, "/ws/foo/src/lib.rs")>>
    /\ Len(buck_rules) = 3
    /\ buck_rules[3].rule = "rust_library"

\* whether a rule reads OUT_DIR and extra flags from the rule named run
ReadsBuildscript(r, run) ==
    /\ "OUT_DIR" \in DOMAIN r.env
    /\ r.env["OUT_DIR"] = "$(location :" \o run \o "[out_dir])"
    /\ ("@$(location :" \o run \o "[rustc_flags])") \in r.rustc_flags

\* C21: for a package with a CustomBuild unit, the returned rule list ends with
\* the build-script compile rule <package>-<unit name> followed by the
\* build-script run rule <package>-<build name>-run, and every library, binary
\* and test rule before them has an OUT_DIR entry and a flags entry that
\* reference that run rule; for a package with no CustomBuild unit no rule has
\* an OUT_DIR entry and no build-script run rule is returned
C21_BuildscriptWiring ==
    bpc = "done" =>
        \A cb \in {GetCustomBuildTargets(job.package)} :
            IF cb # <<>>
            THEN \A n \in {Len(buck_rules)} :
                 \A run \in {job.package.name \o "-" \o GetBuildName(cb[1].name) \o "-run"} :
                    /\ n >= 2
                    /\ buck_rules[n - 1].rule = "rust_binary"
                    /\ buck_rules[n - 1].name = job.package.name \o "-" \o cb[1].name
                    /\ buck_rules[n].rule = "buildscript_run"
                    /\ buck_rules[n].name = run
                    /\ \A i \in 1..(n - 2) :
                          buck_rules[i].rule \in {"rust_library", "rust_binary", "rust_test"}
                              => ReadsBuildscript(buck_rules[i], run)
            ELSE \A i \in DOMAIN buck_rules :
                    /\ buck_rules[i].rule # "buildscript_run"
                    /\ buck_rules[i].rule \in {"rust_library", "rust_binary", "rust_test"}
                          => "OUT_DIR" \notin DOMAIN buck_rules[i].env

\* buckify_root_node returned for a package with a binary, a library and a
\* build script: both compile rules read from foo-build-script-run
C21_Witness ==
    /\ bpc = "done"
    /\ job.package.name = "foo"
    /\ Len(buck_rules) = 6
    /\ buck_rules[3].rule = "rust_binary"
    /\ buck_rules[4].rule = "rust_library"
    /\ ReadsBuildscript(buck_rules[3], "foo-build-script-run")
    /\ ReadsBuildscript(buck_rules[4], "foo-build-script-run")
    /\ buck_rules[5].name = "foo-build-script-build"
    /\ buck_rules[6].name = "foo-build-script-run"

\* whether an environment source is a metadata reference to the build-script
\* run rule of the package d
MetadataRefTo(ref, d) ==
    /\ Contains(ref, "/" \o d.name \o "/" \o d.version \o ":" \o d.name \o "-")
    /\ EndsWith(ref, "-run[metadata]")

\* the packages of the graph with a links key that the node of the run
\* depends on by an edge with a Normal pair whose platform predicate is absent
\* or matches
LinkedDeps ==
    {id \in DOMAIN PackagesMap :
        /\ PackagesMap[id].links # ""
        /\ \E i \in DOMAIN job.node.deps :
              /\ job.node.deps[i].pkg = id
              /\ \E dk \in job.node.deps[i].dep_kinds :
                    dk.kind = "normal" /\ dk.target \in {"none", "match"}}

\* C22: when the translation of a package with a CustomBuild unit returns, the
\* environment sources of its build-script run rule are the manifest's and
\* one metadata reference for each package with a links key the node depends
\* on by a Normal pair for the active platform, and for no other package; when
\* one of those packages has no CustomBuild unit the translation does not
\* return
C22_LinksMetadata ==
    (bpc \in {"done", "panic", "exit"} /\ GetCustomBuildTargets(job.package) # <<>>) =>
        \A linked \in {LinkedDeps} :
            /\ (\E id \in linked : \A i \in DOMAIN PackagesMap[id].targets :
                    "custom-build" \notin PackagesMap[id].targets[i].kind)
                  => bpc # "done"
            /\ bpc = "done" =>
                  \A srcs \in {buck_rules[Len(buck_rules)].env_srcs} :
                      /\ \A id \in DOMAIN PackagesMap :
                            (\E ref \in srcs : MetadataRefTo(ref, PackagesMap[id]))
                                <=> id \in linked
                      /\ \A ref \in srcs :
                            \/ ref = ":" \o job.package.name \o "-manifest[env_dict]"
                            \/ \E id \in linked : MetadataRefTo(ref, PackagesMap[id])
                      /\ Cardinality(srcs) = 1 + Cardinality(linked)

\* the translation of a package with a build script returned over a node with
\* a Normal edge on openssl-sys: the run rule reads the metadata of the run
\* rule of openssl-sys
C22_Witness ==
    /\ bpc = "done"
    /\ job.package.name = "foo"
    /\ GetCustomBuildTargets(job.package) # <<>>
    /\ LinkedDeps = {SysId}
    /\ \E ref \in buck_rules[Len(buck_rules)].env_srcs :
          MetadataRefTo(ref, PackagesMap[SysId])

\* C23: when apply returns for a change set with a Removed entry and an Added
\* or Changed entry for third-party packages of one name and version, the
\* versioned vendor directory and its rule file exist, in whatever order the
\* entries were iterated
C23_OrderIndependent ==
    apc = "done" =>
        \A r, a \in DOMAIN changes :
            (/\ changes[r] = "Removed"
             /\ changes[a] \in {"Added", "Changed"}
             /\ a \in DOMAIN ApplyPackages
             /\ ApplyPackages[a].source # ""
             /\ Captures(r).ok
             /\ Captures(r).name = ApplyPackages[a].name
             /\ Captures(r).version = ApplyPackages[a].version)
            => \A v \in {GetVendorDir(ApplyPackages[a].name, ApplyPackages[a].version)} :
                  v \in dirs /\ (v \o <<"BUCK">>) \in DOMAIN files

\* C24: the iteration of apply over a Removed entry that is not passed over,
\* for a package that left the graph, deletes the versioned vendor directory
\* of no third-party package of ctx.packages_map
C24_KeepsGraphPackages ==
    [][(/\ Len(applied') = Len(applied) + 1
        /\ changes[Begun] = "Removed"
        /\ ~StartsWith(Begun, "path+file:///ws")
        /\ Begun \notin DOMAIN ApplyPackages)
        => \A id \in DOMAIN ApplyPackages :
              ApplyPackages[id].source # "" =>
                  GetVendorDir(ApplyPackages[id].name, ApplyPackages[id].version)
                      \notin dirs \ dirs']_vars

\* C25: when flush_root returns with workspace dependency inheritance
\* enabled, for every edge of the root on a third-party package for which the
\* root's rule references the shared alias of the package's name, and of
\* which another first-party package uses a different version, the alias rule
\* of that name points at the version of the root's edge
C25_AliasMatchesRootEdge ==
    (fpc = "done" /\ fctx.inherit_workspace_deps) =>
        \A i \in DOMAIN anodes[RootId].deps :
            \A d \in {AliasPackages[anodes[RootId].deps[i].pkg]} :
                (/\ d.source # ""
                 /\ \E ref \in root_deps \cup {root_named[n] : n \in DOMAIN root_named} :
                       EndsWith(ref, "rust:" \o d.name)
                 /\ \E j \in DOMAIN anodes[UtilId].deps :
                       \E o \in {AliasPackages[anodes[UtilId].deps[j].pkg]} :
                           o.name = d.name /\ o.version # d.version)
                => /\ d.name \in DOMAIN alias_rules
                   /\ Contains(alias_rules[d.name],
                               "/" \o d.name \o "/" \o d.version \o ":" \o d.name)

\* C29: a section of a loaded configuration that holds lines is listed in
\* section_order, and the file that save writes holds every line of every
\* section
C29_SectionsListed ==
    /\ kpc \in {"loaded", "saved"} =>
          \A s \in DOMAIN bc.sections :
              bc.sections[s] # <<>> => s \in Range(bc.section_order)
    /\ kpc = "saved" =>
          \A s \in DOMAIN saved.sections :
              \A i \in DOMAIN saved.sections[s] : Contains(disk, saved.sections[s][i])

\* the lines of a section of a configuration, none for a section with no entry
SectionLines(config, s) ==
    IF s \in DOMAIN config.sections THEN config.sections[s] ELSE <<>>

\* C30: a configuration that was parsed, possibly changed by new_section and
\* new_section_after calls, and saved is parsed from the saved file with the
\* same section order and the same lines in every section
C30_RoundTrip ==
    (/\ kpc = "reloaded"
     /\ \A i \in DOMAIN kops : kops[i] \in {"new_section", "new_section_after"})
    => /\ bc.section_order = saved.section_order
       /\ \A s \in Range(saved.section_order) \cup DOMAIN saved.sections
                    \cup DOMAIN bc.sections :
             SectionLines(bc, s) = SectionLines(saved, s)

\* the references to the rules of other packages a returned rule holds: the
\* positional and the named dependencies of a compile rule, the environment
\* sources of a build-script run rule; a reference that starts with ':' is
\* to a rule of the package itself
OuterRefs(r) ==
    {ref \in (IF r.rule \in {"rust_library", "rust_binary", "rust_test"}
              THEN r.deps \cup {r.named_deps[x] : x \in DOMAIN r.named_deps}
              ELSE IF r.rule = "buildscript_run" THEN r.env_srcs
              ELSE {}) : ~StartsWith(ref, ":")}

\* a label without the "//" it may start with
LabelPath(ref) == IF StartsWith(ref, "//") THEN StrFrom(ref, 2) ELSE ref

\* the directory a label names, taken from the project root: what stands
\* before the ':'
LabelDir(ref) == PathJoin(Buck2Root, StrTo(LabelPath(ref), Find(LabelPath(ref), ":")))

\* the rule a label names: what follows the ':', up to a '[' if there is one
LabelRule(ref) ==
    LET after == StrFrom(LabelPath(ref), Find(LabelPath(ref), ":") + 1)
    IN  IF Contains(after, "[") THEN StrTo(after, Find(after, "[")) ELSE after

\* the names of the rules the translator returns for a package with tests
\* ignored: buckify_root_node for a first-party package, buckify_dep_node
\* for a third-party one
RuleNamesOf(package) ==
    {package.name \o "-vendor", package.name \o "-manifest"}
    \cup (IF package.source = ""
          THEN {GetBinTargets(package)[i].name : i \in DOMAIN GetBinTargets(package)}
               \cup {LibBuckalName(GetLibTargets(package)[i], GetBinTargets(package)) :
                        i \in DOMAIN GetLibTargets(package)}
          ELSE {package.name})
    \cup (IF GetCustomBuildTargets(package) # <<>>
          THEN {package.name \o "-" \o GetCustomBuildTargets(package)[1].name,
                package.name \o "-" \o GetBuildName(GetCustomBuildTargets(package)[1].name)
                    \o "-run"}
          ELSE {})

\* a reference names the directory of the rule file of a package and one of
\* its rules
RefersTo(ref, package) ==
    /\ LabelDir(ref) = VendorDirOf(package)
    /\ LabelRule(ref) \in RuleNamesOf(package)

\* the packages the edges of the translated node lead to
EdgePackages ==
    {PackagesMap[job.node.deps[i].pkg] :
        i \in {x \in DOMAIN job.node.deps : job.node.deps[x].pkg \in DOMAIN PackagesMap}}

\* C26: every reference of a returned rule to a rule of another package
\* (positional dependency, named dependency, links metadata environment
\* source) names the directory the rule file of a package of an edge of the
\* node is written to and a rule of that package's list; a first-party
\* dependency is named by its manifest directory.  Runs that write the label
\* as emitted: no cell alignment, no workspace alias.
C26_RefsResolve ==
    (/\ bpc = "done"
     /\ ~job.ctx.align_cells
     /\ ~(job.ctx.inherit_workspace_deps /\ job.ctx.is_root))
    => \A i \in DOMAIN buck_rules :
          \A ref \in OuterRefs(buck_rules[i]) :
             \E d \in EdgePackages : RefersTo(ref, d)

\* the same statement for the positional and the named dependencies alone
C26_DepsResolve ==
    (/\ bpc = "done"
     /\ ~job.ctx.align_cells
     /\ ~(job.ctx.inherit_workspace_deps /\ job.ctx.is_root))
    => \A i \in DOMAIN buck_rules :
          IsRustRule(buck_rules[i]) =>
             \A ref \in OuterRefs(buck_rules[i]) :
                \E d \in EdgePackages : RefersTo(ref, d)

\* the rule named inside a $(location :<name>...) macro of a string
LocationRule(s) ==
    LET after == StrFrom(s, Find(s, "$(location :") + 12)
        stop == {i \in 0..(Len(after) - 1) : SubSeq(after, i + 1, i + 1) \in {"[", ")"}}
    IN  StrTo(after, MinOffset(stop))

\* the rules of its own package a returned rule refers to: by a label that
\* starts with ':' in its dependencies, sources, vendor, manifest directory,
\* build-script rule and environment sources, and by the $(location :...)
\* macros of its flags and environment
InnerRefs(r) ==
    LET labels ==
            IF IsRustRule(r)
            THEN r.deps \cup r.srcs \cup {r.named_deps[x] : x \in DOMAIN r.named_deps}
            ELSE IF r.rule = "cargo_manifest" THEN {r.vendor}
            ELSE IF r.rule = "buildscript_run"
            THEN r.env_srcs \cup {r.buildscript_rule, r.manifest_dir}
            ELSE {}
        macros ==
            IF IsRustRule(r)
            THEN r.rustc_flags \cup {r.env[x] : x \in DOMAIN r.env}
            ELSE {}
    IN  {LabelRule(l) : l \in {x \in labels : StartsWith(x, ":")}}
        \cup {LocationRule(s) : s \in {x \in macros : Contains(x, "$(location :")}}

\* the names of the rules of the returned list
RuleNames == {buck_rules[i].name : i \in DOMAIN buck_rules}

\* C27: in the list buckify_root_node returns, every reference to a rule of
\* the package itself (the :lib<name> of a binary, the library and the
\* $(location :<bin>) of an integration test, the vendor and manifest
\* references, the OUT_DIR and flags references, buildscript_rule) names a
\* rule of that list
C27_InnerRefsResolve ==
    (bpc = "done" /\ job.package.source = "") =>
        \A i \in DOMAIN buck_rules : InnerRefs(buck_rules[i]) \subseteq RuleNames

\* a returned list of a package with a binary and a library of one name and
\* a build script: the binary refers to the library and, as every compile
\* rule, to the build-script run
C27_Witness ==
    /\ bpc = "done"
    /\ job.package.source = ""
    /\ \E i, k \in DOMAIN buck_rules :
          /\ buck_rules[i].rule = "rust_binary"
          /\ ":lib" \o buck_rules[i].name \in buck_rules[i].deps
          /\ "OUT_DIR" \in DOMAIN buck_rules[i].env
          /\ buck_rules[k].rule = "buildscript_run"

\* a returned list with an integration test that refers to the binary and to
\* the library of the package
C27_Fixtures ==
    /\ bpc = "done"
    /\ job.package.source = ""
    /\ \E j \in DOMAIN buck_rules :
          /\ buck_rules[j].rule = "rust_test"
          /\ \E x \in DOMAIN buck_rules[j].env : StartsWith(x, "CARGO_BIN_EXE_")
          /\ \E x \in buck_rules[j].deps : StartsWith(x, ":lib")

\* C28: the names of the rules of one list buckify_root_node returns are
\* pairwise distinct
C28_NamesDistinct ==
    (bpc = "done" /\ job.package.source = "") =>
        \A i, j \in DOMAIN buck_rules :
            buck_rules[i].name = buck_rules[j].name => i = j

\* the same for the lists without a test rule
C28_PlainNamesDistinct ==
    (/\ bpc = "done"
     /\ job.package.source = ""
     /\ \A i \in DOMAIN buck_rules : buck_rules[i].rule # "rust_test")
    => \A i, j \in DOMAIN buck_rules :
          buck_rules[i].name = buck_rules[j].name => i = j

====
